---- MODULE Spec2Model ----
(***************************************************************************)
(* Supervision core of hl-maker-webapp: backend/api/bot_manager.py         *)
(* (Registry, BotRunner) and backend/api/pidguard.py (pid files).          *)
(*                                                                         *)
(* Caller threads are the HTTP workers of backend/api/main.py that call    *)
(* registry.start / stop / get; the watchdog is the daemon thread of       *)
(* Registry.__init__.  A step of a thread is one access to shared state    *)
(* (the registry map, a runner's fields, the pid files, a process).        *)
(*                                                                         *)
(* Environment assumptions:                                                *)
(*   - SIGKILL is effective: a process sent SIGKILL is dead when the       *)
(*     following join returns;                                             *)
(*   - a worker may exit by itself at any moment; it may die on SIGTERM or *)
(*     ignore it;                                                          *)
(*   - os.remove of a pid file the supervisor wrote succeeds; writing a    *)
(*     pid file may fail;                                                  *)
(*   - pids are not reused: the n-th process started has pid n.            *)
(***************************************************************************)
EXTENDS Integers, Sequences, FiniteSets, Bags, TLC

\* ---- bounds ----
\* worker processes the supervisor may start in one run
MaxProcs == 2
\* logical keys: "owner" and one "user:<token>" key (main.py _reg_key_from_auth)
Keys == {"owner", "user"}
\* concurrent HTTP worker threads
Callers == {"c1", "c2"}
\* the watchdog thread
WD == "wd"
Threads == Callers \cup {WD}
NoKey == "none"
\* a mp.Process object whose start() failed: no pid, never alive
Unstarted == -1
\* capacity of a runner's log buffer (deque(maxlen=2000), scaled down)
BufCap == 3
\* records the workers of one key may log in one run: one more than the buffer holds
MaxLines == BufCap + 1
\* a pid file that cannot be parsed (json.load or int() raises)
Garbage == -2
\* longest session token (uuid4().hex, 32 hex digits, scaled down)
MaxTok == 3
\* worker processes a previous run of the supervisor started (pids 1..PrevProcs)
PrevProcs == 1

VARIABLES
    runners,          \* Registry._runners: the registered keys, in insertion order
    nCreated,         \* key -> number of BotRunner instances ever constructed for it
    proc,             \* key -> BotRunner.proc: 0 (None), Unstarted, or a pid
    nprocs,           \* worker processes started so far; their pids are 1..nprocs
    workers,          \* the live worker processes: [pid, key, term (SIGTERM received)]
    stop_evt,         \* key -> BotRunner.stop_evt is set
    log_thread_stop,  \* key -> BotRunner._log_thread_stop is set
    last_beat,        \* key -> "fresh" | "stale": whether now - last_beat > threshold
    pidfile,          \* file name -> pid recorded in the pid file, 0 when absent
    lock,             \* Registry._lock: "free" or the thread holding it
    stop_on_silence,  \* Registry._stop_on_silence (0 = watchdog off)
    th,               \* thread -> its position and locals
    log_q,            \* key -> BotRunner.log_q: the records put and not yet got
    log_buf,          \* key -> BotRunner._log_buf: the lines appended and not yet read
    listeners,        \* the bag of running _log_listener threads: [key, pc, rec]
    emitted,          \* key -> number of records the key's workers have logged
    last_read,        \* key -> the line read_logs popped last, <<>> before the first
    rlock             \* key -> BotRunner._lock: "free" or the thread holding it

\* the log relay of the runners
relay == <<log_q, log_buf, listeners, emitted, last_read, rlock>>

vars == <<runners, nCreated, proc, nprocs, workers, stop_evt, log_thread_stop,
          last_beat, pidfile, lock, stop_on_silence, th, relay>>

shared == <<runners, nCreated, proc, nprocs, workers, stop_evt, log_thread_stop,
            last_beat, pidfile, lock, stop_on_silence, relay>>

Range(s) == {s[i] : i \in 1..Len(s)}

\* ---- pid files -------------------------------------------------------

\* A key is spelled as a sequence of runs of characters: a run of letters and
\* digits, or one punctuation character.  "user" is "user:<token>", the token
\* being uuid4().hex.
Spelling(k) ==
    CASE k = "owner" -> <<"owner">>
      [] k = "user" -> <<"user", ":", "tok">>
      [] OTHER -> <<k>>

\* the punctuation pidfile_path keeps, and the punctuation there is
SafePunct == {"-", "_", ":"}
Punct == SafePunct \cup {"/", ".", " "}

\* ch.isalnum() or ch in ("-", "_", ":")
IsSafe(ch) == ch \notin Punct \/ ch \in SafePunct

\* a pidfile_path that keeps only the first character run of the key
PathOf_FirstRun(sp) == <<"hlmaker-">> \o SubSeq(SelectSeq(sp, IsSafe), 1, 1) \o <<".pid">>

\* pidfile_path of a spelled key: the file name in the temp directory
PathOf(sp) == <<"hlmaker-">> \o SelectSeq(sp, IsSafe) \o <<".pid">>

\* a pidfile_path that leaves the key out of the file name
pidfile_path_Fixed(k) == <<"hlmaker-", ".pid">>

pidfile_path(k) == PathOf(Spelling(k))

\* the pid files of the keys
PidFiles == {pidfile_path(k) : k \in Keys}

\* read_pid: the recorded pid, None (0) when the file is absent or unreadable
read_pid(k) ==
    LET c == pidfile[pidfile_path(k)]
    IN IF c = Garbage THEN 0 ELSE c

\* write_pidfile: the store after json.dump of {"pid": pid, ...} to the key's file
write_pidfile(store, k, pid) == [store EXCEPT ![pidfile_path(k)] = pid]

\* remove_pidfile: the store after os.remove of the key's file (absent: no error)
remove_pidfile(store, k) == [store EXCEPT ![pidfile_path(k)] = 0]

\* A thread outside any call.
Idle ==
    [pc |-> "idle", op |-> "none", key |-> NoKey, p |-> 0, mine |-> 0,
     todo |-> <<>>, exc |-> FALSE, res |-> "none", n |-> 0, out |-> <<>>]

\* ---- processes -------------------------------------------------------

\* mp.Process.is_alive(): false for None and for a handle that was never started
Alive(i) == \E w \in workers : w.pid = i

\* a pid attribute that names the first worker whatever the handle
PidOf_First(h) == IF h = Unstarted THEN 0 ELSE 1

\* mp.Process.pid: None (0) until the process has been started
PidOf(h) == IF h = Unstarted THEN 0 ELSE h

\* an is_alive that looks at the handle only
is_alive_HandleOnly(k) == proc[k] # 0

\* BotRunner.is_alive
is_alive(k) == Alive(proc[k])

\* GET /bot/status
status(k) ==
    IF k \in Range(runners)
    THEN [running |-> is_alive(k), pid |-> PidOf(proc[k])]
    ELSE [running |-> FALSE, pid |-> 0]

LiveWorkers(k) == {w \in workers : w.key = k}

\* a stop that sends no SIGTERM
Terminate_Skipped(ws, i) == ws

\* os.kill(pid, SIGTERM): the signal is pending in a live process
Terminate(ws, i) == {IF w.pid = i THEN [w EXCEPT !.term = TRUE] ELSE w : w \in ws}

\* the process is gone: it exited, died of SIGTERM or was sent SIGKILL
Gone(ws, i) == {w \in ws : w.pid # i}

\* a kill_key that kills the recorded pid and forgets to remove the record
kill_key_KeepsRecord(k) ==
    /\ workers' = Gone(workers, read_pid(k))
    /\ UNCHANGED pidfile

\* pidguard._kill_pid: terminate, wait, kill, wait; True also when there is no
\* such process
kill_pid(ws, pid) == Gone(ws, pid)

\* pidguard.kill_key: nothing without a readable record; else _kill_pid of the
\* recorded pid, then remove_pidfile
kill_key(k) ==
    IF read_pid(k) = 0
    THEN UNCHANGED <<workers, pidfile>>
    ELSE /\ workers' = kill_pid(workers, read_pid(k))
         /\ pidfile' = remove_pidfile(pidfile, k)

\* ---- Registry --------------------------------------------------------

\* a lookup that takes every key for a registered one
Registered_Always(k) == TRUE

\* Registry.stop / get / touch: "if r" after r = self._runners.get(key)
Registered(k) == k \in Range(runners)

\* a start that builds a BotRunner whether or not the key has one
NeedsCreate_Always(k) == TRUE

\* Registry.start: "if not r" after self._runners.get(key)
NeedsCreate(k) == k \notin Range(runners)

\* starts that still have to spawn their process
PendingSpawns == {u \in Callers : th[u].op = "start" /\ th[u].mine = 0 /\ th[u].pc # "done"}

\* The call of thread t is over with result res.
Done(t, res) == [Idle EXCEPT !.pc = "done", !.op = th[t].op, !.key = th[t].key, !.res = res]

\* The thread after BotRunner.stop() has returned (exc: it raised) to its caller.
AfterStop(t, exc) ==
    CASE th[t].op = "start" ->
            IF exc THEN Done(t, "raised") ELSE [th[t] EXCEPT !.pc = "st_spawn"]
      [] th[t].op = "stop" ->
            IF exc THEN Done(t, "raised") ELSE Done(t, "true")
      [] th[t].op = "stop_all" ->
            IF exc THEN Done(t, "raised")
            ELSE [th[t] EXCEPT !.pc = "sa_iter", !.todo = Tail(@), !.p = 0]
      [] OTHER -> [th[t] EXCEPT !.pc = "wd_kill", !.exc = exc, !.p = 0]

\* Registry.start, the locked block: look the runner up or create it
\* (BotRunner.__init__ sets last_beat to now)
RegistryStart(t, k) ==
    /\ t \in Callers /\ th[t].pc = "idle" /\ lock = "free"
    /\ nprocs + Cardinality(PendingSpawns) < MaxProcs
    /\ runners' = IF NeedsCreate(k) THEN Append(runners, k) ELSE runners
    /\ nCreated' = IF NeedsCreate(k) THEN [nCreated EXCEPT ![k] = @ + 1] ELSE nCreated
    /\ last_beat' = IF NeedsCreate(k) THEN [last_beat EXCEPT ![k] = "fresh"] ELSE last_beat
    /\ th' = [th EXCEPT ![t] = [Idle EXCEPT !.pc = "st_check", !.op = "start", !.key = k]]
    /\ UNCHANGED <<proc, nprocs, workers, stop_evt, log_thread_stop, pidfile, lock,
                   stop_on_silence>>
    /\ UNCHANGED relay

\* Registry.stop, the locked lookup; False for a key without runner
RegistryStop(t, k) ==
    /\ t \in Callers /\ th[t].pc = "idle" /\ lock = "free"
    /\ th' = [th EXCEPT ![t] =
                IF Registered(k)
                THEN [Idle EXCEPT !.pc = "sp_begin", !.op = "stop", !.key = k]
                ELSE [Idle EXCEPT !.pc = "done", !.op = "stop", !.key = k, !.res = "false"]]
    /\ UNCHANGED shared

\* Registry.get (GET /bot/status, /bot/debug, /ws/logs)
RegistryGet(t, k) ==
    /\ t \in Callers /\ th[t].pc = "idle" /\ lock = "free"
    /\ th' = [th EXCEPT ![t] =
                [Idle EXCEPT !.pc = "done", !.op = "get", !.key = k,
                             !.res = IF Registered(k) THEN "runner" ELSE "none"]]
    /\ UNCHANGED shared

\* Registry.touch, the locked lookup
RegistryTouch(t, k) ==
    /\ t \in Callers /\ th[t].pc = "idle" /\ lock = "free"
    /\ th' = [th EXCEPT ![t] =
                IF Registered(k)
                THEN [Idle EXCEPT !.pc = "touch", !.op = "touch", !.key = k]
                ELSE [Idle EXCEPT !.pc = "done", !.op = "touch", !.key = k]]
    /\ UNCHANGED shared

\* BotRunner.touch
RunnerTouch(t) ==
    /\ th[t].pc = "touch"
    /\ last_beat' = [last_beat EXCEPT ![th[t].key] = "fresh"]
    /\ th' = [th EXCEPT ![t] = Done(t, "none")]
    /\ UNCHANGED <<runners, nCreated, proc, nprocs, workers, stop_evt, log_thread_stop,
                   pidfile, lock, stop_on_silence>>
    /\ UNCHANGED relay

\* Registry.stop_all, the locked snapshot of the keys
RegistryStopAll(t) ==
    /\ t \in Callers /\ th[t].pc = "idle" /\ lock = "free"
    /\ th' = [th EXCEPT ![t] = [Idle EXCEPT !.pc = "sa_iter", !.op = "stop_all",
                                           !.todo = runners]]
    /\ UNCHANGED shared

\* Registry.stop_all, one turn of the loop: self.stop(k) looks k up under the lock
StopAllIter(t) ==
    /\ th[t].pc = "sa_iter"
    /\ IF th[t].todo = <<>>
       THEN th' = [th EXCEPT ![t] = Done(t, "none")]
       ELSE /\ lock = "free"
            /\ th' = [th EXCEPT ![t] = [@ EXCEPT !.pc = "sp_begin",
                                                !.key = Head(th[t].todo)]]
    /\ UNCHANGED shared

\* ---- BotRunner.start -------------------------------------------------

\* a start that never stops the running worker
MustStopFirst_Never(k) == FALSE

\* "if self.proc and self.proc.is_alive(): self.stop()"
MustStopFirst(k) == is_alive(k)

StartCheck(t) ==
    /\ th[t].pc = "st_check"
    /\ th' = [th EXCEPT ![t].pc = IF MustStopFirst(th[t].key) THEN "sp_begin" ELSE "st_spawn"]
    /\ UNCHANGED shared

\* self.stop_evt = CTX.Event(); self.proc = CTX.Process(...); self.proc.start()
\* The handle is assigned before start(): a failed start() leaves it in self.proc.
StartSpawn(t) ==
    /\ th[t].pc = "st_spawn"
    /\ LET k == th[t].key
           new == nprocs + 1
       IN /\ stop_evt' = [stop_evt EXCEPT ![k] = FALSE]
          /\ \/ /\ proc' = [proc EXCEPT ![k] = new]
                /\ nprocs' = new
                /\ workers' = workers \cup {[pid |-> new, key |-> k, term |-> FALSE]}
                /\ th' = [th EXCEPT ![t] = [@ EXCEPT !.pc = "st_beat", !.mine = new]]
             \/ /\ proc' = [proc EXCEPT ![k] = Unstarted]
                /\ th' = [th EXCEPT ![t] = Done(t, "raised")]
                /\ UNCHANGED <<nprocs, workers>>
    /\ UNCHANGED <<runners, nCreated, log_thread_stop, last_beat, pidfile, lock,
                   stop_on_silence>>
    /\ UNCHANGED relay

\* self.started_at = time.time(); self.last_beat = self.started_at;
\* self._start_log_listener(): clear the stop flag, start a _log_listener thread
StartBeat(t) ==
    /\ th[t].pc = "st_beat"
    /\ last_beat' = [last_beat EXCEPT ![th[t].key] = "fresh"]
    /\ log_thread_stop' = [log_thread_stop EXCEPT ![th[t].key] = FALSE]
    /\ listeners' = listeners (+) SetToBag({[key |-> th[t].key, pc |-> "check", rec |-> 0]})
    /\ th' = [th EXCEPT ![t].pc = "st_pid"]
    /\ UNCHANGED <<runners, nCreated, proc, nprocs, workers, stop_evt, pidfile, lock,
                   stop_on_silence>>
    /\ UNCHANGED <<log_q, log_buf, emitted, last_read, rlock>>

\* a start without the try/except around write_pidfile: a failed write is raised
StartPid_Strict(t) ==
    /\ th[t].pc = "st_pid"
    /\ LET k == th[t].key
       IN IF proc[k] = 0
          THEN /\ th' = [th EXCEPT ![t] = Done(t, "raised")]
               /\ UNCHANGED pidfile
          ELSE \/ /\ PidOf(proc[k]) # 0
                  /\ pidfile' = write_pidfile(pidfile, k, PidOf(proc[k]))
                  /\ th' = [th EXCEPT ![t] = Done(t, "true")]
               \/ /\ UNCHANGED pidfile
                  /\ th' = [th EXCEPT ![t] = Done(t, "raised")]
    /\ UNCHANGED <<runners, nCreated, proc, nprocs, workers, stop_evt, log_thread_stop,
                   last_beat, lock, stop_on_silence>>
    /\ UNCHANGED relay

\* pidguard.write_pidfile(self.key, self.proc.pid) in try/except, then
\* log.info(... self.proc.pid ...), which raises when self.proc is None;
\* the write fails for a pid of None (int(None)) or on an I/O error
StartPid(t) ==
    /\ th[t].pc = "st_pid"
    /\ LET k == th[t].key
       IN IF proc[k] = 0
          THEN /\ th' = [th EXCEPT ![t] = Done(t, "raised")]
               /\ UNCHANGED pidfile
          ELSE /\ th' = [th EXCEPT ![t] = Done(t, "true")]
               /\ \/ PidOf(proc[k]) # 0 /\ pidfile' = write_pidfile(pidfile, k, PidOf(proc[k]))
                  \/ UNCHANGED pidfile
    /\ UNCHANGED <<runners, nCreated, proc, nprocs, workers, stop_evt, log_thread_stop,
                   last_beat, lock, stop_on_silence>>
    /\ UNCHANGED relay

\* ---- BotRunner.stop --------------------------------------------------

\* a stop without the early return
IsIdleHandle_Never(p) == FALSE

\* "p = self.proc; if not p: return"
IsIdleHandle(p) == p = 0

\* p = self.proc; if not p: return; self.stop_evt.set(); p.join(timeout) begins.
\* join() of a process that was never started raises, which leads to the finally block.
StopBegin(t) ==
    /\ th[t].pc = "sp_begin"
    /\ LET k == th[t].key
           p == proc[k]
       IN IF IsIdleHandle(p)
          THEN /\ th' = [th EXCEPT ![t] = AfterStop(t, FALSE)]
               /\ UNCHANGED stop_evt
          ELSE /\ stop_evt' = [stop_evt EXCEPT ![k] = TRUE]
               /\ th' = [th EXCEPT ![t] =
                           IF p = 0 \/ p = Unstarted
                           THEN [@ EXCEPT !.pc = "sp_fin", !.p = p, !.exc = TRUE]
                           ELSE [@ EXCEPT !.pc = "sp_join", !.p = p]]
    /\ UNCHANGED <<runners, nCreated, proc, nprocs, workers, log_thread_stop, last_beat,
                   pidfile, lock, stop_on_silence>>
    /\ UNCHANGED relay

\* a join without timeout: stop goes on only when the worker has exited
StopJoin_Unbounded(t) ==
    /\ th[t].pc = "sp_join" /\ ~Alive(th[t].p)
    /\ th' = [th EXCEPT ![t].pc = "sp_fin"]
    /\ UNCHANGED shared

\* p.join(timeout) is over; "if p.is_alive(): os.kill(p.pid, SIGTERM)"
StopJoin(t) ==
    /\ th[t].pc = "sp_join"
    /\ IF Alive(th[t].p)
       THEN /\ workers' = Terminate(workers, th[t].p)
            /\ th' = [th EXCEPT ![t].pc = "sp_term"]
       ELSE /\ th' = [th EXCEPT ![t].pc = "sp_fin"]
            /\ UNCHANGED workers
    /\ UNCHANGED <<runners, nCreated, proc, nprocs, stop_evt, log_thread_stop, last_beat,
                   pidfile, lock, stop_on_silence>>
    /\ UNCHANGED relay

\* p.join(1.5) is over; "if p.is_alive(): os.kill(p.pid, SIGKILL); p.join(0.5)"
StopTerm(t) ==
    /\ th[t].pc = "sp_term"
    /\ workers' = Gone(workers, th[t].p)
    /\ th' = [th EXCEPT ![t].pc = "sp_fin"]
    /\ UNCHANGED <<runners, nCreated, proc, nprocs, stop_evt, log_thread_stop, last_beat,
                   pidfile, lock, stop_on_silence>>
    /\ UNCHANGED relay

\* finally: self._stop_log_listener(); pidguard.kill_key(self.key)
StopFinally(t) ==
    /\ th[t].pc = "sp_fin"
    /\ log_thread_stop' = [log_thread_stop EXCEPT ![th[t].key] = TRUE]
    /\ kill_key(th[t].key)
    /\ th' = [th EXCEPT ![t].pc = "sp_fin2"]
    /\ UNCHANGED <<runners, nCreated, proc, nprocs, stop_evt, last_beat, lock,
                   stop_on_silence>>
    /\ UNCHANGED relay

\* finally: self.proc = None; stop() returns, or re-raises what the try block raised
StopClear(t) ==
    /\ th[t].pc = "sp_fin2"
    /\ proc' = [proc EXCEPT ![th[t].key] = 0]
    /\ th' = [th EXCEPT ![t] = AfterStop(t, th[t].exc)]
    /\ UNCHANGED <<runners, nCreated, nprocs, workers, stop_evt, log_thread_stop,
                   last_beat, pidfile, lock, stop_on_silence>>
    /\ UNCHANGED relay

\* The call is over: the HTTP worker is free again.
Return(t) ==
    /\ th[t].pc = "done"
    /\ th' = [th EXCEPT ![t] = Idle]
    /\ UNCHANGED shared

\* ---- log relay -------------------------------------------------------

\* logging.Formatter("%(asctime)s %(levelname)s %(message)s").format(rec): the line
\* of the n-th record a key's workers logged
Format(rec) == <<"INFO", rec>>

\* the payloads that are no LogRecord ("texto crudo"): fmt.format raises on them
RawPayloads == {-1}

\* fmt.format(rec) returns a line
CanFormat(rec) == rec \notin RawPayloads

\* str(rec)
Str(rec) == <<"raw", rec>>

\* _log_listener: line = fmt.format(rec), and on an exception line = str(rec)
Line(rec) == IF CanFormat(rec) THEN Format(rec) ELSE Str(rec)

\* a buffer that grows without bound
BufAppend_Unbounded(buf, line) == Append(buf, line)

\* a buffer filled at the wrong end (appendleft)
BufAppend_Left(buf, line) ==
    IF Len(buf) >= BufCap THEN <<line>> \o SubSeq(buf, 1, Len(buf) - 1) ELSE <<line>> \o buf

\* deque(maxlen=BufCap).append: a full deque drops its oldest item
BufAppend(buf, line) ==
    IF Len(buf) >= BufCap THEN Append(Tail(buf), line) ELSE Append(buf, line)

\* the worker logs a record: QueueHandler puts it on the runner's log_q
Emit(i) ==
    /\ \E w \in workers :
          /\ w.pid = i /\ emitted[w.key] < MaxLines
          /\ emitted' = [emitted EXCEPT ![w.key] = @ + 1]
          /\ log_q' = [log_q EXCEPT ![w.key] = Append(@, emitted[w.key] + 1)]
    /\ UNCHANGED <<runners, nCreated, proc, nprocs, workers, stop_evt, log_thread_stop,
                   last_beat, pidfile, lock, stop_on_silence, th>>
    /\ UNCHANGED <<log_buf, listeners, last_read, rlock>>

\* the listener thread in state x takes a step to state y, or ends
Moves(x, y) == (listeners (-) SetToBag({x})) (+) SetToBag({y})
Ends(x) == listeners (-) SetToBag({x})

\* _log_listener: "while not stop_evt.is_set()"; the thread ends when the flag is set
ListenerCheck(x) ==
    /\ BagIn(x, listeners) /\ x.pc = "check"
    /\ listeners' = IF log_thread_stop[x.key] THEN Ends(x)
                                              ELSE Moves(x, [x EXCEPT !.pc = "get"])
    /\ UNCHANGED <<runners, nCreated, proc, nprocs, workers, stop_evt, log_thread_stop,
                   last_beat, pidfile, lock, stop_on_silence, th>>
    /\ UNCHANGED <<log_q, log_buf, emitted, last_read, rlock>>

\* a q.get without timeout: the listener waits until there is an item
ListenerGet_Blocking(x) ==
    /\ BagIn(x, listeners) /\ x.pc = "get" /\ log_q[x.key] # <<>>
    /\ listeners' = Moves(x, [x EXCEPT !.pc = "append", !.rec = Head(log_q[x.key])])
    /\ log_q' = [log_q EXCEPT ![x.key] = Tail(@)]
    /\ UNCHANGED <<runners, nCreated, proc, nprocs, workers, stop_evt, log_thread_stop,
                   last_beat, pidfile, lock, stop_on_silence, th>>
    /\ UNCHANGED <<log_buf, emitted, last_read, rlock>>

\* _log_listener: rec = q.get(timeout=0.5); on the timeout (queue.Empty) continue
ListenerGet(x) ==
    /\ BagIn(x, listeners) /\ x.pc = "get"
    /\ IF log_q[x.key] = <<>>
       THEN /\ listeners' = Moves(x, [x EXCEPT !.pc = "check"])
            /\ UNCHANGED log_q
       ELSE /\ listeners' = Moves(x, [x EXCEPT !.pc = "append", !.rec = Head(log_q[x.key])])
            /\ log_q' = [log_q EXCEPT ![x.key] = Tail(@)]
    /\ UNCHANGED <<runners, nCreated, proc, nprocs, workers, stop_evt, log_thread_stop,
                   last_beat, pidfile, lock, stop_on_silence, th>>
    /\ UNCHANGED <<log_buf, emitted, last_read, rlock>>

\* a listener that lets the exception of fmt.format escape: the thread ends
ListenerAppend_Strict(x) ==
    /\ BagIn(x, listeners) /\ x.pc = "append"
    /\ IF CanFormat(x.rec)
       THEN /\ log_buf' = [log_buf EXCEPT ![x.key] = BufAppend(@, Format(x.rec))]
            /\ listeners' = Moves(x, [x EXCEPT !.pc = "check", !.rec = 0])
       ELSE /\ listeners' = Ends(x)
            /\ UNCHANGED log_buf
    /\ UNCHANGED <<runners, nCreated, proc, nprocs, workers, stop_evt, log_thread_stop,
                   last_beat, pidfile, lock, stop_on_silence, th>>
    /\ UNCHANGED <<log_q, emitted, last_read, rlock>>

\* _log_listener: line = fmt.format(rec) or str(rec); buffer.append(line)
ListenerAppend(x) ==
    /\ BagIn(x, listeners) /\ x.pc = "append"
    /\ log_buf' = [log_buf EXCEPT ![x.key] = BufAppend(@, Line(x.rec))]
    /\ listeners' = Moves(x, [x EXCEPT !.pc = "check", !.rec = 0])
    /\ UNCHANGED <<runners, nCreated, proc, nprocs, workers, stop_evt, log_thread_stop,
                   last_beat, pidfile, lock, stop_on_silence, th>>
    /\ UNCHANGED <<log_q, emitted, last_read, rlock>>

\* a read that ignores max_lines
ReadCount_All(max_lines, len) == len

\* read_logs: min(max_lines, len(self._log_buf))
ReadCount(max_lines, len) == IF max_lines < len THEN max_lines ELSE len

\* br = registry.get(key); br.read_logs(max_lines) (GET /bot/debug, /ws/logs)
ReadLogsCall(t, k, max_lines) ==
    /\ t \in Callers /\ th[t].pc = "idle" /\ lock = "free"
    /\ Registered(k)
    /\ th' = [th EXCEPT ![t] = [Idle EXCEPT !.pc = "rl_lock", !.op = "read_logs",
                                           !.key = k, !.n = max_lines]]
    /\ UNCHANGED shared

\* read_logs: "with self._lock:" and the evaluation of range(min(max_lines, len))
ReadLogsBegin(t) ==
    /\ th[t].pc = "rl_lock" /\ rlock[th[t].key] = "free"
    /\ rlock' = [rlock EXCEPT ![th[t].key] = t]
    /\ th' = [th EXCEPT ![t] = [@ EXCEPT !.pc = "rl_pop",
                                        !.n = ReadCount(@, Len(log_buf[th[t].key]))]]
    /\ UNCHANGED <<runners, nCreated, proc, nprocs, workers, stop_evt, log_thread_stop,
                   last_beat, pidfile, lock, stop_on_silence>>
    /\ UNCHANGED <<log_q, log_buf, listeners, emitted, last_read>>

\* a read that copies the oldest line and leaves it in the buffer
ReadLogsPop_Peek(t) ==
    /\ th[t].pc = "rl_pop"
    /\ LET k == th[t].key
       IN IF th[t].n = 0 \/ log_buf[k] = <<>>
          THEN /\ rlock' = [rlock EXCEPT ![k] = "free"]
               /\ th' = [th EXCEPT ![t] = Idle]
               /\ UNCHANGED <<log_buf, last_read>>
          ELSE /\ last_read' = [last_read EXCEPT ![k] = Head(log_buf[k])]
               /\ th' = [th EXCEPT ![t] = [@ EXCEPT !.n = @ - 1,
                                                   !.out = Append(@, Head(log_buf[k]))]]
               /\ UNCHANGED <<rlock, log_buf>>
    /\ UNCHANGED <<runners, nCreated, proc, nprocs, workers, stop_evt, log_thread_stop,
                   last_beat, pidfile, lock, stop_on_silence>>
    /\ UNCHANGED <<log_q, listeners, emitted>>

\* read_logs: one turn of the loop, lines.append(self._log_buf.popleft()); after the
\* last turn (or IndexError) the lock is released and the lines (th[t].out) are
\* returned to the observer
ReadLogsPop(t) ==
    /\ th[t].pc = "rl_pop"
    /\ LET k == th[t].key
       IN IF th[t].n = 0 \/ log_buf[k] = <<>>
          THEN /\ rlock' = [rlock EXCEPT ![k] = "free"]
               /\ th' = [th EXCEPT ![t] = Idle]
               /\ UNCHANGED <<log_buf, last_read>>
          ELSE /\ log_buf' = [log_buf EXCEPT ![k] = Tail(@)]
               /\ last_read' = [last_read EXCEPT ![k] = Head(log_buf[k])]
               /\ th' = [th EXCEPT ![t] = [@ EXCEPT !.n = @ - 1,
                                                   !.out = Append(@, Head(log_buf[k]))]]
               /\ UNCHANGED rlock
    /\ UNCHANGED <<runners, nCreated, proc, nprocs, workers, stop_evt, log_thread_stop,
                   last_beat, pidfile, lock, stop_on_silence>>
    /\ UNCHANGED <<log_q, listeners, emitted>>

\* ---- Registry._watchdog ----------------------------------------------

\* "if self._stop_on_silence > 0: now = time.time(); with self._lock:
\*  for key, r in list(self._runners.items())"
\* a watchdog thread that is started whatever the threshold
WdSweep_Always ==
    /\ th[WD].pc = "idle" /\ lock = "free"
    /\ lock' = WD
    /\ th' = [th EXCEPT ![WD] = [Idle EXCEPT !.pc = "wd_iter", !.op = "wd", !.todo = runners]]
    /\ UNCHANGED <<runners, nCreated, proc, nprocs, workers, stop_evt, log_thread_stop,
                   last_beat, pidfile, stop_on_silence>>
    /\ UNCHANGED relay

WdSweep ==
    /\ th[WD].pc = "idle" /\ stop_on_silence > 0 /\ lock = "free"
    /\ lock' = WD
    /\ th' = [th EXCEPT ![WD] = [Idle EXCEPT !.pc = "wd_iter", !.op = "wd", !.todo = runners]]
    /\ UNCHANGED <<runners, nCreated, proc, nprocs, workers, stop_evt, log_thread_stop,
                   last_beat, pidfile, stop_on_silence>>
    /\ UNCHANGED relay

\* a watchdog that stops every live runner, whatever its heartbeat
IdleTooLong_AnyBeat(k) == is_alive(k)

\* "if r.is_alive(): idle = now - r.last_beat; if idle > self._stop_on_silence"
IdleTooLong(k) == is_alive(k) /\ last_beat[k] = "stale"

\* a sweep that ends without releasing the lock
WdIter_KeepsLock ==
    /\ th[WD].pc = "wd_iter"
    /\ UNCHANGED lock
    /\ th' = [th EXCEPT ![WD] =
                IF th[WD].todo = <<>> THEN Idle
                ELSE IF IdleTooLong(Head(th[WD].todo))
                     THEN [@ EXCEPT !.pc = "sp_begin", !.key = Head(th[WD].todo)]
                     ELSE [@ EXCEPT !.todo = Tail(@)]]
    /\ UNCHANGED <<runners, nCreated, proc, nprocs, workers, stop_evt, log_thread_stop,
                   last_beat, pidfile, stop_on_silence>>
    /\ UNCHANGED relay

\* one turn of the sweep's loop; after the last one the lock is released
WdIter ==
    /\ th[WD].pc = "wd_iter"
    /\ IF th[WD].todo = <<>>
       THEN /\ lock' = "free"
            /\ th' = [th EXCEPT ![WD] = Idle]
       ELSE /\ UNCHANGED lock
            /\ th' = [th EXCEPT ![WD] =
                        IF IdleTooLong(Head(th[WD].todo))
                        THEN [@ EXCEPT !.pc = "sp_begin", !.key = Head(th[WD].todo)]
                        ELSE [@ EXCEPT !.todo = Tail(@)]]
    /\ UNCHANGED <<runners, nCreated, proc, nprocs, workers, stop_evt, log_thread_stop,
                   last_beat, pidfile, stop_on_silence>>
    /\ UNCHANGED relay

\* "try: r.stop() finally: pidguard.kill_key(key)"; an exception of r.stop() leaves
\* the with block (the lock is released) and is swallowed by the outer except
WdKill ==
    /\ th[WD].pc = "wd_kill"
    /\ kill_key(th[WD].key)
    /\ IF th[WD].exc
       THEN /\ lock' = "free"
            /\ th' = [th EXCEPT ![WD] = Idle]
       ELSE /\ UNCHANGED lock
            /\ th' = [th EXCEPT ![WD] = [@ EXCEPT !.pc = "wd_iter", !.todo = Tail(@),
                                                !.key = NoKey]]
    /\ UNCHANGED <<runners, nCreated, proc, nprocs, stop_evt, log_thread_stop, last_beat,
                   stop_on_silence>>
    /\ UNCHANGED relay

\* ---- environment -----------------------------------------------------

\* the worker returns from bot.loop() or crashes (os._exit(1))
WorkerExit(i) ==
    /\ Alive(i)
    /\ workers' = Gone(workers, i)
    /\ UNCHANGED <<runners, nCreated, proc, nprocs, stop_evt, log_thread_stop, last_beat,
                   pidfile, lock, stop_on_silence, th>>
    /\ UNCHANGED relay

\* SIGTERM takes effect in a worker that does not ignore it
TermDelivered(i) ==
    /\ \E w \in workers : w.pid = i /\ w.term
    /\ workers' = Gone(workers, i)
    /\ UNCHANGED <<runners, nCreated, proc, nprocs, stop_evt, log_thread_stop, last_beat,
                   pidfile, lock, stop_on_silence, th>>
    /\ UNCHANGED relay

\* more than the threshold has passed since the runner's last heartbeat
Tick(k) ==
    /\ stop_on_silence > 0 /\ k \in Range(runners) /\ last_beat[k] = "fresh"
    /\ last_beat' = [last_beat EXCEPT ![k] = "stale"]
    /\ UNCHANGED <<runners, nCreated, proc, nprocs, workers, stop_evt, log_thread_stop,
                   pidfile, lock, stop_on_silence, th>>
    /\ UNCHANGED relay

\* ---- specification ---------------------------------------------------

\* Registry.__init__ and no runner yet; STOP_ON_SILENCE_SEC is 0 (unset) or positive
Init ==
    /\ runners = <<>>
    /\ nCreated = [k \in Keys |-> 0]
    /\ proc = [k \in Keys |-> 0]
    /\ nprocs = 0
    /\ workers = {}
    /\ stop_evt = [k \in Keys |-> FALSE]
    /\ log_thread_stop = [k \in Keys |-> FALSE]
    /\ last_beat = [k \in Keys |-> "fresh"]
    /\ pidfile = [f \in PidFiles |-> 0]
    /\ lock = "free"
    /\ stop_on_silence \in {0, 1}
    /\ th = [t \in Threads |-> Idle]
    /\ log_q = [k \in Keys |-> <<>>]
    /\ log_buf = [k \in Keys |-> <<>>]
    /\ listeners = EmptyBag
    /\ emitted = [k \in Keys |-> 0]
    /\ last_read = [k \in Keys |-> <<>>]
    /\ rlock = [k \in Keys |-> "free"]

\* a step of thread t inside BotRunner.start or BotRunner.stop, or its return
RunnerStep(t) ==
    \/ StartCheck(t) \/ StartSpawn(t) \/ StartBeat(t) \/ StartPid(t)
    \/ StopBegin(t) \/ StopJoin(t) \/ StopTerm(t) \/ StopFinally(t) \/ StopClear(t)
    \/ Return(t)

\* a step of thread t inside a call
ThreadStep(t) == RunnerStep(t) \/ StopAllIter(t) \/ RunnerTouch(t)

\* a caller begins a call; its start is for one of the keys ks
Call(t, ks) ==
    \/ \E k \in ks : RegistryStart(t, k)
    \/ \E k \in Keys : RegistryStop(t, k) \/ RegistryGet(t, k) \/ RegistryTouch(t, k)
    \/ RegistryStopAll(t)

\* the key concurrent callers contend for
RaceKeys == {"owner"}

Watchdog == WdSweep \/ WdIter \/ WdKill

Environment ==
    \/ \E i \in 1..MaxProcs : WorkerExit(i) \/ TermDelivered(i)
    \/ \E k \in Keys : Tick(k)

Next ==
    \/ \E t \in Threads : ThreadStep(t)
    \/ \E t \in Callers : Call(t, RaceKeys)
    \/ Watchdog
    \/ Environment

Spec == Init /\ [][Next]_vars

\* Calls in succession: a call begins only when no other call or sweep is under way.
Quiet == \A u \in Threads : th[u].pc = "idle"

SeqNext ==
    \/ \E t \in Threads : ThreadStep(t)
    \/ \E t \in Callers : Quiet /\ Call(t, Keys)
    \/ (Quiet /\ WdSweep) \/ WdIter \/ WdKill
    \/ Environment

SeqSpec == Init /\ [][SeqNext]_vars

\* The log relay of one runner: a caller that starts, restarts and stops the key, an
\* observer that reads its logs, the key's workers (which log, and run until they
\* are stopped) and its listener threads.
LogKey == "owner"

LogInit == Init /\ stop_on_silence = 0

\* the lines an observer asks for: /bot/debug and /ws/logs ask for more than the
\* buffer of the model holds
ReadSizes == {1, 10}

\* the states a listener thread can be in
ListenerStates == [key : Keys, pc : {"check", "get", "append"}, rec : 0..MaxLines]

Relay ==
    \/ \E x \in ListenerStates : ListenerCheck(x) \/ ListenerGet(x) \/ ListenerAppend(x)
    \/ \E i \in 1..MaxProcs : Emit(i)

LogNext ==
    \/ RunnerStep("c1")
    \/ RegistryStart("c1", LogKey) \/ RegistryStop("c1", LogKey)
    \/ \E m \in ReadSizes : ReadLogsCall("c2", LogKey, m)
    \/ ReadLogsBegin("c2") \/ ReadLogsPop("c2")
    \/ Relay

LogSpec == LogInit /\ [][LogNext]_vars

\* ---- pidguard on its own ----------------------------------------------

\* a file of the temp directory that is not a pid file
Foreign == <<"other", ".tmp">>

\* name.startswith("hlmaker-") and name.endswith(".pid")
IsPidFileName(name) == Head(name) = "hlmaker-" /\ name[Len(name)] = ".pid"

\* kill_all: key = name[len("hlmaker-"):-4]
KeyOfName(name) == SubSeq(name, 2, Len(name) - 1)

\* os.listdir(_tmpdir()): the files there are, in any order
ListDir == {f \in PidFiles : pidfile[f] # 0} \cup {Foreign}
Listings == {s \in [1..Cardinality(ListDir) -> ListDir] : Range(s) = ListDir}

\* psutil.pid_exists
pid_exists(pid) == Alive(pid)

\* the thread when a pidguard function has returned (res "raised": it raised)
Returned(t, op, k, res) == [th[t] EXCEPT !.pc = "done", !.op = op, !.key = k, !.res = res]

\* write_pidfile(key, pid): returns None, or raises when the file cannot be written
WritePidfile(t, k, pid) ==
    /\ th[t].pc = "idle"
    /\ \/ /\ pidfile' = write_pidfile(pidfile, k, pid)
          /\ th' = [th EXCEPT ![t] = [Returned(t, "write", k, "none") EXCEPT !.p = pid]]
       \/ /\ UNCHANGED pidfile
          /\ th' = [th EXCEPT ![t] = [Returned(t, "write", k, "raised") EXCEPT !.p = pid]]
    /\ UNCHANGED <<runners, nCreated, proc, nprocs, workers, stop_evt, log_thread_stop,
                   last_beat, lock, stop_on_silence, relay>>

\* read_pid(key): the result is kept in field n
ReadPid(t, k) ==
    /\ th[t].pc = "idle"
    /\ th' = [th EXCEPT ![t] = [Returned(t, "read", k, "none") EXCEPT !.n = read_pid(k)]]
    /\ UNCHANGED shared

\* remove_pidfile(key)
RemovePidfile(t, k) ==
    /\ th[t].pc = "idle"
    /\ pidfile' = remove_pidfile(pidfile, k)
    /\ th' = [th EXCEPT ![t] = Returned(t, "remove", k, "none")]
    /\ UNCHANGED <<runners, nCreated, proc, nprocs, workers, stop_evt, log_thread_stop,
                   last_beat, lock, stop_on_silence, relay>>

\* kill_key(key) called from outside a runner (main.py stop_by_token)
KillKey(t, k) ==
    /\ th[t].pc = "idle"
    /\ kill_key(k)
    /\ th' = [th EXCEPT ![t] = Returned(t, "kill_key", k, "true")]
    /\ UNCHANGED <<runners, nCreated, proc, nprocs, stop_evt, log_thread_stop,
                   last_beat, lock, stop_on_silence, relay>>

\* cleanup_dead(): removed = []; for name in os.listdir(...)
CleanupDeadCall(t) ==
    /\ th[t].pc = "idle"
    /\ \E s \in Listings :
          th' = [th EXCEPT ![t] = [Idle EXCEPT !.pc = "cd_iter", !.op = "cleanup_dead",
                                               !.todo = s]]
    /\ UNCHANGED shared

\* a cleanup_dead that reports the key of the file it removes
Report_Key(name) == KeyOfName(name)

\* what cleanup_dead appends to its result for the file it removes
Report(name) == name

\* one pass of the loop of cleanup_dead, or return removed.  A file that cannot be
\* opened or parsed is removed (if it is there) and reported too.
CleanupDeadIter(t) ==
    /\ th[t].pc = "cd_iter"
    /\ IF th[t].todo = <<>>
       THEN /\ th' = [th EXCEPT ![t].pc = "done", ![t].res = "none"]
            /\ UNCHANGED pidfile
       ELSE LET name == Head(th[t].todo)
                next == [th[t] EXCEPT !.todo = Tail(@)]
            IN IF ~IsPidFileName(name)
               THEN th' = [th EXCEPT ![t] = next] /\ UNCHANGED pidfile
               ELSE IF pidfile[name] > 0 /\ pid_exists(pidfile[name])
               THEN th' = [th EXCEPT ![t] = next] /\ UNCHANGED pidfile
               ELSE /\ pidfile' = [pidfile EXCEPT ![name] = 0]
                    /\ th' = [th EXCEPT ![t] = [next EXCEPT !.out = Append(@, Report(name))]]
    /\ UNCHANGED <<runners, nCreated, proc, nprocs, workers, stop_evt, log_thread_stop,
                   last_beat, lock, stop_on_silence, relay>>

\* kill_all(): killed = []; for name in os.listdir(...)
KillAllCall(t) ==
    /\ th[t].pc = "idle"
    /\ \E s \in Listings :
          th' = [th EXCEPT ![t] = [Idle EXCEPT !.pc = "ka_iter", !.op = "kill_all",
                                               !.todo = s]]
    /\ UNCHANGED shared

\* one pass of the loop of kill_all, or return killed: the key is cut out of the
\* name, read_pid(key) reads the file pidfile_path gives for it
KillAllIter(t) ==
    /\ th[t].pc = "ka_iter"
    /\ IF th[t].todo = <<>>
       THEN /\ th' = [th EXCEPT ![t].pc = "done", ![t].res = "none"]
            /\ UNCHANGED <<workers, pidfile>>
       ELSE LET name == Head(th[t].todo)
                next == [th[t] EXCEPT !.todo = Tail(@)]
                f    == PathOf(KeyOfName(name))
                pid  == IF pidfile[f] = Garbage THEN 0 ELSE pidfile[f]
            IN IF ~IsPidFileName(name) \/ pid = 0
               THEN th' = [th EXCEPT ![t] = next] /\ UNCHANGED <<workers, pidfile>>
               ELSE /\ workers' = kill_pid(workers, pid)
                    /\ pidfile' = [pidfile EXCEPT ![f] = 0]
                    /\ th' = [th EXCEPT ![t] = [next EXCEPT !.out = Append(@, pid)]]
    /\ UNCHANGED <<runners, nCreated, proc, nprocs, stop_evt, log_thread_stop,
                   last_beat, lock, stop_on_silence, relay>>

\* what a pid file can hold
Contents == {0, Garbage} \cup (1..MaxProcs)

\* The supervisor has just come up: no runner yet, the watchdog off; the temp
\* directory holds whatever the previous run left, and any of the pids 1..MaxProcs
\* is a live process or not.
PidInit ==
    /\ runners = <<>>
    /\ nCreated = [k \in Keys |-> 0]
    /\ proc = [k \in Keys |-> 0]
    /\ nprocs = MaxProcs
    /\ workers \in SUBSET {[pid |-> i, key |-> NoKey, term |-> FALSE] : i \in 1..MaxProcs}
    /\ stop_evt = [k \in Keys |-> FALSE]
    /\ log_thread_stop = [k \in Keys |-> FALSE]
    /\ last_beat = [k \in Keys |-> "fresh"]
    /\ pidfile \in [PidFiles -> Contents]
    /\ lock = "free"
    /\ stop_on_silence = 0
    /\ th = [t \in Threads |-> Idle]
    /\ log_q = [k \in Keys |-> <<>>]
    /\ log_buf = [k \in Keys |-> <<>>]
    /\ listeners = EmptyBag
    /\ emitted = [k \in Keys |-> 0]
    /\ last_read = [k \in Keys |-> <<>>]
    /\ rlock = [k \in Keys |-> "free"]

\* the thread that calls pidguard
PG == "c1"

PidNext ==
    \/ \E k \in Keys : \E pid \in 1..MaxProcs : WritePidfile(PG, k, pid)
    \/ \E k \in Keys : ReadPid(PG, k) \/ RemovePidfile(PG, k) \/ KillKey(PG, k)
    \/ CleanupDeadCall(PG) \/ CleanupDeadIter(PG)
    \/ KillAllCall(PG) \/ KillAllIter(PG)
    \/ Return(PG)
    \/ \E i \in 1..MaxProcs : WorkerExit(i)

PidSpec == PidInit /\ [][PidNext]_vars

\* ---- the keys main.py makes, and their files ---------------------------

\* hex digits (two of the sixteen)
HexChars == {"a", "1"}

\* uuid4().hex: the session tokens, spelled digit by digit
Tokens == UNION {[1..n -> HexChars] : n \in 1..MaxTok}

\* _reg_key_from_auth: "owner", or f"user:{tok}" for a token of SESSIONS
LogicalKeys == {<<"owner">>} \cup {<<"user", ":">> \o tok : tok \in Tokens}

\* pidfile_path(key) is computed for a key; the result is kept in field out
PidfilePath(t, sp) ==
    /\ th[t].pc = "idle"
    /\ th' = [th EXCEPT ![t] = [Idle EXCEPT !.pc = "done", !.op = "pidfile_path",
                                            !.key = sp, !.out = PathOf(sp)]]
    /\ UNCHANGED shared

KeyNext ==
    \/ \E t \in Callers : \E sp \in LogicalKeys : PidfilePath(t, sp)
    \/ \E t \in Callers : Return(t)

KeySpec == Init /\ [][KeyNext]_vars

\* ---- progress of stop --------------------------------------------------

\* One caller starts, stops and stops all, next to the watchdog and to workers that
\* exit when they like or not at all.
LiveNext ==
    \/ \E t \in Threads : RunnerStep(t) \/ StopAllIter(t)
    \/ \E k \in RaceKeys : RegistryStart("c1", k)
    \/ \E k \in Keys : RegistryStop("c1", k)
    \/ RegistryStopAll("c1")
    \/ Watchdog
    \/ Environment

\* A thread inside a call goes on: every wait of BotRunner.stop and of _kill_pid has
\* a timeout.  A sweep, once begun, goes on.  Between two sweeps the watchdog sleeps
\* with the Registry lock free, so that a thread waiting for the lock gets it.
LiveFair ==
    /\ \A t \in Threads : WF_vars(RunnerStep(t)) /\ SF_vars(StopAllIter(t))
    /\ WF_vars(WdIter \/ WdKill)

LiveSpec == Init /\ [][LiveNext]_vars /\ LiveFair

\* ---- the supervisor after a restart -------------------------------------

\* The supervisor has come up again and cleanup_dead has run (main.py): the Registry
\* is empty; the workers of the previous run that are still alive have their
\* records, one key each, and there is no other record.
RestartInit ==
    /\ runners = <<>>
    /\ nCreated = [k \in Keys |-> 0]
    /\ proc = [k \in Keys |-> 0]
    /\ nprocs = PrevProcs
    /\ pidfile \in [PidFiles -> 0..PrevProcs]
    /\ \A f, g \in PidFiles : (f # g /\ pidfile[f] # 0) => pidfile[f] # pidfile[g]
    /\ workers = {[pid |-> pidfile[pidfile_path(k)], key |-> k, term |-> FALSE] :
                     k \in {j \in Keys : pidfile[pidfile_path(j)] # 0}}
    /\ stop_evt = [k \in Keys |-> FALSE]
    /\ log_thread_stop = [k \in Keys |-> FALSE]
    /\ last_beat = [k \in Keys |-> "fresh"]
    /\ lock = "free"
    /\ stop_on_silence = 0
    /\ th = [t \in Threads |-> Idle]
    /\ log_q = [k \in Keys |-> <<>>]
    /\ log_buf = [k \in Keys |-> <<>>]
    /\ listeners = EmptyBag
    /\ emitted = [k \in Keys |-> 0]
    /\ last_read = [k \in Keys |-> <<>>]
    /\ rlock = [k \in Keys |-> "free"]

\* the keys requests lead to after a restart: SESSIONS is empty, the tokens of the
\* previous run are unknown, and _reg_key_from_auth falls back to "owner"
KeysAfterRestart == {"owner"}

\* one caller starts and stops runners and calls kill_all (POST /bot/stop_all)
RestartNext ==
    \/ RunnerStep(PG)
    \/ \E k \in KeysAfterRestart : RegistryStart(PG, k) \/ RegistryStop(PG, k)
    \/ KillAllCall(PG) \/ KillAllIter(PG)
    \/ \E i \in 1..MaxProcs : WorkerExit(i)

RestartSpec == RestartInit /\ [][RestartNext]_vars

\* the same, with every call of the new supervisor carried through; _worker has no
\* step of its own that looks at its parent, so nothing is asked of the workers
OrphanSpec == RestartSpec /\ WF_vars(RunnerStep(PG) \/ KillAllIter(PG))

\* ---- two tenants side by side ------------------------------------------

\* One caller starts and stops the runners of both keys and calls kill_key for them
\* (POST /bot/stop_by_token), at the same time as the watchdog stops idle runners.
ApartNext ==
    \/ \E t \in Threads : RunnerStep(t)
    \/ \E k \in Keys : RegistryStart(PG, k) \/ RegistryStop(PG, k) \/ KillKey(PG, k)
    \/ Watchdog
    \/ Environment

ApartSpec == Init /\ [][ApartNext]_vars

\* ---- progress of the listener threads ----------------------------------

\* a caller starts, restarts and stops one runner; its workers log, its listener
\* threads run
DrainNext ==
    \/ RunnerStep(PG)
    \/ RegistryStart(PG, LogKey) \/ RegistryStop(PG, LogKey)
    \/ Relay

\* some listener thread that can take a step does: the threads are daemon threads
\* of the supervisor, and their only wait, q.get, has a timeout
ListenerStep ==
    \E x \in ListenerStates : ListenerCheck(x) \/ ListenerGet(x) \/ ListenerAppend(x)

DrainSpec == LogInit /\ [][DrainNext]_vars /\ WF_vars(ListenerStep)

\* ---- payloads of the log queue ----------------------------------------

\* a payload that is no LogRecord is put on the queue of a runner
PutRaw(k, p) ==
    /\ Registered(k) /\ Len(log_q[k]) < BufCap /\ p \notin Range(log_q[k])
    /\ log_q' = [log_q EXCEPT ![k] = Append(@, p)]
    /\ UNCHANGED <<runners, nCreated, proc, nprocs, workers, stop_evt, log_thread_stop,
                   last_beat, pidfile, lock, stop_on_silence, th>>
    /\ UNCHANGED <<log_buf, listeners, emitted, last_read, rlock>>

\* the states of a listener thread that may hold any payload
PayloadStates ==
    [key : Keys, pc : {"check", "get", "append"}, rec : (0..MaxLines) \cup RawPayloads]

\* one runner is started and then stopped; its worker logs records, raw payloads
\* arrive on its queue, and its listener thread runs
PayloadNext ==
    \/ RunnerStep(PG)
    \/ (nprocs = 0 /\ RegistryStart(PG, LogKey)) \/ RegistryStop(PG, LogKey)
    \/ \E p \in RawPayloads : PutRaw(LogKey, p)
    \/ \E x \in PayloadStates : ListenerCheck(x) \/ ListenerGet(x) \/ ListenerAppend(x)
    \/ \E i \in 1..MaxProcs : Emit(i)

PayloadSpec == LogInit /\ [][PayloadNext]_vars

\* ---- a log queue that fails ---------------------------------------------

\* what a listener thread holds once q.get has raised something other than
\* queue.Empty: the queue is closed or its pipe is broken, and stays so
QueueClosed == -9

\* the states of a listener thread whose queue has failed
FailedStates == [key : Keys, pc : {"check", "get"}, rec : {QueueClosed}]

\* the queue fails under a listener thread waiting in q.get: the call raises, and
\* "except Exception: continue" leads back to the test of the stop flag
QueueFails(x) ==
    /\ BagIn(x, listeners) /\ x.pc = "get"
    /\ listeners' = Moves(x, [x EXCEPT !.pc = "check", !.rec = QueueClosed])
    /\ UNCHANGED <<runners, nCreated, proc, nprocs, workers, stop_evt, log_thread_stop,
                   last_beat, pidfile, lock, stop_on_silence, th>>
    /\ UNCHANGED <<log_q, log_buf, emitted, last_read, rlock>>

\* q.get on the failed queue raises again: "except Exception: continue"
ListenerGetFails(x) ==
    /\ BagIn(x, listeners) /\ x.pc = "get" /\ x.rec = QueueClosed
    /\ listeners' = Moves(x, [x EXCEPT !.pc = "check"])
    /\ UNCHANGED <<runners, nCreated, proc, nprocs, workers, stop_evt, log_thread_stop,
                   last_beat, pidfile, lock, stop_on_silence, th>>
    /\ UNCHANGED <<log_q, log_buf, emitted, last_read, rlock>>

\* a step of a listener thread, on a working queue or on a failed one
ClosedStep ==
    \/ \E x \in ListenerStates : ListenerCheck(x) \/ ListenerGet(x) \/ ListenerAppend(x)
    \/ \E x \in FailedStates : ListenerCheck(x) \/ ListenerGetFails(x)

\* one runner is started and then stopped; its worker logs, its listener thread
\* runs, and its queue may fail for good
ClosedNext ==
    \/ RunnerStep(PG)
    \/ (nprocs = 0 /\ RegistryStart(PG, LogKey)) \/ RegistryStop(PG, LogKey)
    \/ \E x \in ListenerStates : QueueFails(x)
    \/ ClosedStep
    \/ \E i \in 1..MaxProcs : Emit(i)

ClosedSpec == LogInit /\ [][ClosedNext]_vars /\ WF_vars(ClosedStep)

\* ---- several observers of one runner ----------------------------------

\* a runner is started and then stopped; its worker logs, its listener thread
\* runs, and two observers (/ws/logs connections, /bot/debug) read its logs, one
\* of them the caller that started it
ObserversNext ==
    \/ RunnerStep(PG)
    \/ (nprocs = 0 /\ RegistryStart(PG, LogKey)) \/ RegistryStop(PG, LogKey)
    \/ \E t \in Callers :
          \/ \E m \in ReadSizes : ReadLogsCall(t, LogKey, m)
          \/ ReadLogsBegin(t) \/ ReadLogsPop(t)
    \/ Relay

ObserversSpec == LogInit /\ [][ObserversNext]_vars

\* ---- the body of a worker ---------------------------------------------

\* the main thread of the first worker process; th holds its position as it holds
\* the positions of the supervisor's threads
Child == "child"

\* _worker, in order: the logging setup with the start line, the imports, HLConfig
\* and BotArgs, ExchangeAdapter and MakerBot, resolve_coin, start_ws, loop
Phases == <<"logging", "imports", "config", "build", "resolve", "connect", "loop">>

PhaseNo(ph) == CHOOSE i \in 1..Len(Phases) : Phases[i] = ph

InBody(t) == th[t].pc \in Range(Phases) \cup {"crash"}

\* a worker whose handler logs and then returns from _worker
ExitStatus_NoExit(how) ==
    IF how = "SIGTERM" THEN -15 ELSE IF how = "SIGKILL" THEN -9 ELSE 0

\* the exit status of the worker process: 0 when _worker returns, 1 from
\* os._exit(1), minus the signal number when a signal of stop() ends it
ExitStatus(how) ==
    IF how = "returned" THEN 0
    ELSE IF how = "raised" THEN 1
    ELSE IF how = "SIGTERM" THEN -15 ELSE -9

\* the spawned process enters _worker
ChildBegin ==
    /\ th[Child].pc = "idle"
    /\ \E w \in workers :
          /\ w.pid = 1
          /\ th' = [th EXCEPT ![Child] = [Idle EXCEPT !.pc = "logging", !.op = "_worker",
                                                      !.key = w.key, !.p = w.pid]]
    /\ UNCHANGED shared

\* the body goes on to its next part; the logging setup ends with
\* logging.info("[CHILD] starting worker ...")
ChildStep ==
    /\ th[Child].pc \in Range(Phases) \ {"loop"} /\ Alive(th[Child].p)
    /\ th' = [th EXCEPT ![Child].pc = Phases[PhaseNo(@) + 1]]
    /\ IF th[Child].pc = "logging"
       THEN /\ emitted' = [emitted EXCEPT ![th[Child].key] = @ + 1]
            /\ log_q' = [log_q EXCEPT ![th[Child].key] = Append(@, emitted[th[Child].key] + 1)]
       ELSE UNCHANGED <<emitted, log_q>>
    /\ UNCHANGED <<runners, nCreated, proc, nprocs, workers, stop_evt, log_thread_stop,
                   last_beat, pidfile, lock, stop_on_silence>>
    /\ UNCHANGED <<log_buf, listeners, last_read, rlock>>

\* bot.loop() logs a line
ChildLog ==
    /\ th[Child].pc = "loop" /\ emitted[th[Child].key] < MaxLines - 1
    /\ Emit(th[Child].p)

\* some part of the body raises an Exception: control goes to the handler
ChildRaise ==
    /\ th[Child].pc \in Range(Phases) /\ Alive(th[Child].p)
    /\ th' = [th EXCEPT ![Child] = [@ EXCEPT !.pc = "crash", !.exc = TRUE,
                                           !.res = th[Child].pc]]
    /\ UNCHANGED shared

\* except Exception: logging.exception(...), finally os._exit(1). QueueHandler puts
\* the record in the queue's buffer, from where the feeder thread of the process
\* writes it to the pipe; os._exit ends the process at once, with the record
\* written or not
ChildCrashExit ==
    /\ th[Child].pc = "crash" /\ Alive(th[Child].p)
    /\ LET k == th[Child].key
           n == emitted[k] + 1
       IN /\ emitted' = [emitted EXCEPT ![k] = n]
          /\ log_q' \in {log_q, [log_q EXCEPT ![k] = Append(@, n)]}
          /\ th' = [th EXCEPT ![Child] = [@ EXCEPT !.pc = "exited", !.mine = n,
                                                   !.n = ExitStatus("raised")]]
    /\ workers' = Gone(workers, th[Child].p)
    /\ UNCHANGED <<runners, nCreated, proc, nprocs, stop_evt, log_thread_stop,
                   last_beat, pidfile, lock, stop_on_silence>>
    /\ UNCHANGED <<log_buf, listeners, last_read, rlock>>

\* bot.loop() returns: logging.info("[CHILD] worker finished normally"), _worker
\* returns, and the process flushes its queue and exits
ChildReturn ==
    /\ th[Child].pc = "loop" /\ Alive(th[Child].p)
    /\ LET k == th[Child].key
           n == emitted[k] + 1
       IN /\ emitted' = [emitted EXCEPT ![k] = n]
          /\ log_q' = [log_q EXCEPT ![k] = Append(@, n)]
          /\ th' = [th EXCEPT ![Child] = [@ EXCEPT !.pc = "exited", !.mine = n,
                                                   !.res = "returned",
                                                   !.n = ExitStatus("returned")]]
    /\ workers' = Gone(workers, th[Child].p)
    /\ UNCHANGED <<runners, nCreated, proc, nprocs, stop_evt, log_thread_stop,
                   last_beat, pidfile, lock, stop_on_silence>>
    /\ UNCHANGED <<log_buf, listeners, last_read, rlock>>

\* a signal of stop() or of kill_key has ended the process
ChildKilled ==
    /\ InBody(Child) /\ ~Alive(th[Child].p)
    /\ \E sig \in {"SIGTERM", "SIGKILL"} :
          th' = [th EXCEPT ![Child] = [@ EXCEPT !.pc = "exited", !.res = "killed",
                                                !.n = ExitStatus(sig)]]
    /\ UNCHANGED shared

WorkerInit ==
    /\ runners = <<>>
    /\ nCreated = [k \in Keys |-> 0]
    /\ proc = [k \in Keys |-> 0]
    /\ nprocs = 0
    /\ workers = {}
    /\ stop_evt = [k \in Keys |-> FALSE]
    /\ log_thread_stop = [k \in Keys |-> FALSE]
    /\ last_beat = [k \in Keys |-> "fresh"]
    /\ pidfile = [f \in PidFiles |-> 0]
    /\ lock = "free"
    /\ stop_on_silence = 0
    /\ th = [t \in Threads \cup {Child} |-> Idle]
    /\ log_q = [k \in Keys |-> <<>>]
    /\ log_buf = [k \in Keys |-> <<>>]
    /\ listeners = EmptyBag
    /\ emitted = [k \in Keys |-> 0]
    /\ last_read = [k \in Keys |-> <<>>]
    /\ rlock = [k \in Keys |-> "free"]

ChildBody ==
    \/ ChildBegin \/ ChildStep \/ ChildLog \/ ChildRaise
    \/ ChildCrashExit \/ ChildReturn \/ ChildKilled

\* one runner is started and then stopped; its worker runs _worker, and its
\* listener thread runs
WorkerNext ==
    \/ RunnerStep(PG)
    \/ (nprocs = 0 /\ RegistryStart(PG, LogKey)) \/ RegistryStop(PG, LogKey)
    \/ ChildBody
    \/ \E i \in 1..MaxProcs : TermDelivered(i)
    \/ ListenerStep

WorkerSpec ==
    WorkerInit /\ [][WorkerNext]_vars /\ WF_vars(ListenerStep) /\ WF_vars(RunnerStep(PG))

\* ---- the locks ---------------------------------------------------------

\* one caller makes every call of the Registry and reads logs, a second caller
\* reads the logs of the same runner, and the watchdog sweeps
LockNext ==
    \/ \E t \in Threads : ThreadStep(t)
    \/ Call(PG, RaceKeys)
    \/ \E t \in Callers :
          ReadLogsCall(t, LogKey, BufCap) \/ ReadLogsBegin(t) \/ ReadLogsPop(t)
    \/ Watchdog
    \/ Environment

\* Fair scheduling: a thread inside a call goes on; a thread waiting for a lock
\* that is free again and again gets it; a sweep, once begun, goes on.
LockFair ==
    /\ \A t \in Threads : WF_vars(RunnerStep(t) \/ RunnerTouch(t)) /\ SF_vars(StopAllIter(t))
    /\ \A t \in Callers : SF_vars(ReadLogsBegin(t)) /\ WF_vars(ReadLogsPop(t))
    /\ WF_vars(WdIter \/ WdKill)

LockSpec == Init /\ [][LockNext]_vars /\ LockFair

\* ---- properties ------------------------------------------------------

\* thread t has run a statement of BotRunner.start or BotRunner.stop on its runner
\* and has not finished the call
Inside(t) ==
    \/ th[t].pc \in {"st_spawn", "st_beat", "st_pid", "sp_join", "sp_term", "sp_fin", "sp_fin2"}
    \/ th[t].pc = "sp_begin" /\ th[t].op = "start"

\* thread t is in the try or finally block of BotRunner.stop
InStop(t) == th[t].pc \in {"sp_join", "sp_term", "sp_fin", "sp_fin2"}

\* C1: in every reachable state, at most one worker process spawned for a key is
\* alive.  Violated: two overlapping Registry.start calls for one key both pass the
\* liveness test and both spawn (no lock covers BotRunner.start, see C5).
AtMostOneLiveWorkerPerKey ==
    \A k \in Keys : Cardinality(LiveWorkers(k)) <= 1

\* C2: with calls in succession, a start that finds the key's worker alive stops it
\* first: when it is about to spawn no worker of the key is alive, after the spawn
\* the only live worker of the key is the new one, and never are two alive.
StartStopsOldWorkerFirst ==
    /\ \A k \in Keys : Cardinality(LiveWorkers(k)) <= 1
    /\ \A t \in Callers :
         /\ th[t].pc = "st_spawn" => LiveWorkers(th[t].key) = {}
         /\ th[t].pc \in {"st_beat", "st_pid"} =>
               \A w \in LiveWorkers(th[t].key) : w.pid = th[t].mine

\* C2 witness: a second start has stopped the live worker p (SIGTERM, then SIGKILL or
\* its death) and spawned the new one, which is the key's only live worker
SecondStartReplacedWorker ==
    \E t \in Callers :
        /\ th[t].op = "start" /\ th[t].pc = "st_pid"
        /\ th[t].p > 0 /\ th[t].mine > th[t].p
        /\ ~Alive(th[t].p)
        /\ LiveWorkers(th[t].key) = {[pid |-> th[t].mine, key |-> th[t].key, term |-> FALSE]}

\* Registry.start of thread t returns True in this step
StartReturnsTrue(t) ==
    th[t].op = "start" /\ th[t].pc = "st_pid" /\ th'[t].pc = "done" /\ th'[t].res = "true"

\* C3: when Registry.start(k) returns success, status(k) reports the pid of the
\* worker this start spawned, and running (stated for as long as that worker has not
\* died, which the claim implies).  Violated: an overlapping start replaces self.proc.
StartSuccessReportsSpawnedWorker ==
    [][\A t \in Callers, k \in Keys, m \in 1..MaxProcs :
         (StartReturnsTrue(t) /\ k = th[t].key /\ m = th[t].mine) =>
            status(k)' = [running |-> Alive(m)', pid |-> m]]_vars

\* Registry.stop of thread t returns True in this step
StopReturnsTrue(t) ==
    th[t].op = "stop" /\ th[t].pc # "done" /\ th'[t].pc = "done" /\ th'[t].res = "true"

\* C4: when Registry.stop(k) returns for a registered key, status(k).running is
\* false and the key has no pid record.  Violated: a start that overlaps the stop
\* writes its record after the stop's kill_key.
StopLeavesNothingRunning ==
    [][\A t \in Callers, k \in Keys :
         (StopReturnsTrue(t) /\ k = th[t].key) =>
            /\ ~status(k)'.running
            /\ pidfile'[pidfile_path(k)] = 0]_vars

\* C5: no two threads are at the same time inside BotRunner.start or BotRunner.stop
\* of the same runner.  Violated: nothing but the map lookup is under a lock.
RunnerCallsSerialized ==
    \A t, u \in Threads :
        (t # u /\ Inside(t) /\ Inside(u)) => th[t].key # th[u].key

\* C6: at most one BotRunner is ever constructed for a key, it is the one the
\* registry holds, and every thread working on a key works on a registered runner.
OneRunnerPerKey ==
    /\ \A k \in Keys : nCreated[k] = Cardinality({i \in 1..Len(runners) : runners[i] = k})
    /\ \A k \in Keys : nCreated[k] <= 1
    /\ \A t \in Threads :
         th[t].pc \notin {"idle", "done", "sa_iter", "wd_iter"} => Registered(th[t].key)

\* C6 witness: two callers hold the runner of the same key, and it was built once
TwoCallersShareRunner ==
    \E t, u \in Callers :
        /\ t # u /\ th[t].key = th[u].key
        /\ th[t].pc = "st_check" /\ th[u].pc \in {"st_check", "sp_begin", "touch"}
        /\ nCreated[th[t].key] = 1

StopAlwaysCleansUp ==
    [][\A t \in Threads :
         (InStop(t) \/ th[t].pc = "sp_begin") /\ th'[t] # th[t] =>
            CASE th[t].pc = "sp_begin" ->
                    proc[th[t].key] # 0 => th'[t].pc \in {"sp_join", "sp_fin"}
              [] th[t].pc = "sp_join" ->
                    th'[t].pc = (IF Alive(th[t].p) THEN "sp_term" ELSE "sp_fin")
              [] th[t].pc = "sp_term" ->
                    th'[t].pc = "sp_fin" /\ \A w \in workers' : w.pid # th[t].p
              [] th[t].pc = "sp_fin" ->
                    /\ th'[t].pc = "sp_fin2"
                    /\ log_thread_stop'[th[t].key]
                    /\ pidfile'[pidfile_path(th[t].key)] = 0
              [] OTHER ->
                    th'[t].pc \notin {"sp_join", "sp_term", "sp_fin", "sp_fin2"}
                       /\ proc'[th[t].key] = 0]_vars

\* C8 witness: a stop whose join raised (the handle was never started) has run the
\* finally block: stop flag set, no record, handle cleared, and the exception is out
StopRaisedAndCleanedUp ==
    \E t \in Callers :
        /\ th[t].op = "stop" /\ th[t].pc = "done" /\ th[t].res = "raised"
        /\ log_thread_stop[th[t].key] /\ pidfile[pidfile_path(th[t].key)] = 0
        /\ proc[th[t].key] = 0

\* C9: BotRunner.stop on a runner whose handle is None returns at once: it raises
\* nothing and changes no shared state (no signal, handle, heartbeat, stop flags,
\* pid record).
StopOnIdleIsNoOp ==
    [][\A t \in Threads :
         (th[t].pc = "sp_begin" /\ proc[th[t].key] = 0 /\ th'[t] # th[t]) =>
            /\ UNCHANGED shared
            /\ ~InStop(t)'
            /\ th'[t].res # "raised"]_vars

\* C9 witness: Registry.stop has returned True for a registered runner that never
\* had a process
StopOfIdleRunnerReturned ==
    \E t \in Callers :
        /\ th[t].op = "stop" /\ th[t].pc = "done" /\ th[t].res = "true"
        /\ nprocs = 0 /\ proc[th[t].key] = 0 /\ Registered(th[t].key)

\* C10: when spawning fails, start raises and the runner holds no process handle.
\* Violated: self.proc is assigned before self.proc.start(), so the handle of the
\* process that never started stays in self.proc.
FailedSpawnLeavesRunnerIdle ==
    [][\A t \in Callers :
         (th[t].pc = "st_spawn" /\ th'[t].pc = "done" /\ th'[t].res = "raised") =>
            proc'[th[t].key] = 0]_vars

\* ---- log relay: properties -------------------------------------------

\* thread t is in the loop of read_logs, holding the runner's lock
Reading(t) == th[t].pc = "rl_pop"

\* a listener thread of key k holds a record it has got and not yet appended
Held(k) == {x \in BagToSet(listeners) : x.key = k /\ x.pc = "append"}

\* C11: the log buffer never holds more than BufCap lines; an append to a full buffer
\* drops exactly the oldest line and keeps the others in order, followed by the new
\* line; and a listener that has a line to append is never blocked (also while an
\* observer holds the runner's lock).
LogBufferBounded ==
    [][/\ \A k \in Keys : Len(log_buf'[k]) <= BufCap
       /\ \A k \in Keys :
            (log_buf'[k] # log_buf[k] /\ th' = th) =>
               \E x \in Held(k) :
                  log_buf'[k] = (IF Len(log_buf[k]) = BufCap THEN Tail(log_buf[k])
                                                             ELSE log_buf[k])
                                   \o <<Format(x.rec)>>
       /\ \A x \in BagToSet(listeners) :
            x.pc = "append" => ENABLED ListenerAppend(x)]_vars

\* C11 witness: one line more than the capacity was appended and none was read: the
\* buffer is full and holds the newest BufCap lines in order, the first line is gone
OldestLineEvicted ==
    /\ emitted[LogKey] = MaxLines /\ last_read[LogKey] = <<>>
    /\ log_buf[LogKey] = [i \in 1..BufCap |-> Format(i + 1)]

\* C12: read_logs(max_lines) pops min(max_lines, length) lines, each the oldest line
\* of the buffer at that moment, appends them to its result in that order and leaves
\* the rest of the buffer as it is; it returns after exactly that many pops (the
\* buffer never runs empty under it), so a call on an empty buffer returns the empty
\* list and a call on a non-empty buffer removes at least one line.
ReadLogsDrainsOldestFirst ==
    [][\A t \in Callers :
         /\ (th[t].pc = "rl_lock" /\ th'[t].pc # "rl_lock") =>
               /\ th'[t].pc = "rl_pop" /\ th'[t].out = <<>>
               /\ th'[t].n = (IF th[t].n <= Len(log_buf[th[t].key])
                              THEN th[t].n ELSE Len(log_buf[th[t].key]))
               /\ log_buf' = log_buf
         /\ (Reading(t) /\ th'[t].pc = "rl_pop" /\ th'[t] # th[t]) =>
               /\ th[t].n > 0 /\ th'[t].n = th[t].n - 1
               /\ th'[t].out = Append(th[t].out, Head(log_buf[th[t].key]))
               /\ log_buf'[th[t].key] = Tail(log_buf[th[t].key])
         /\ (Reading(t) /\ th'[t].pc = "idle") =>
               th[t].n = 0 /\ log_buf' = log_buf
         /\ th'[t].pc = "rl_pop" => th'[t].n <= Len(log_buf'[th'[t].key])]_vars

\* C12 witness: read_logs(1) on a buffer of three lines is about to return the oldest
\* line; the two newer lines are still in the buffer, in order
PartialReadLeftRest ==
    \E t \in Callers :
        /\ Reading(t) /\ th[t].n = 0 /\ th[t].out = <<Format(1)>>
        /\ log_buf[th[t].key] = <<Format(2), Format(3)>>

\* the number of the record a line was formatted from (0: no line)
LineNo(line) == IF line = <<>> THEN 0 ELSE line[2]

\* C13: the lines of a key are in emission order: the buffer holds them oldest
\* first, and every line still in the buffer was emitted after the line read_logs
\* returned last (so the lines read, one call after the other, and then the lines
\* of the buffer are in emission order).  Violated: a start() after a stop() clears
\* the shared stop flag before the old listener thread has looked at it, two
\* listener threads then take records from the same queue, and the one holding the
\* older record appends second.
LogLinesInEmissionOrder ==
    \A k \in Keys :
        /\ \A i \in 1..(Len(log_buf[k]) - 1) : LineNo(log_buf[k][i]) < LineNo(log_buf[k][i + 1])
        /\ log_buf[k] # <<>> => LineNo(last_read[k]) < LineNo(log_buf[k][1])

\* the key was started once, its worker has logged exactly three records
ThreeLinesLogged(k) == nprocs = 1 /\ emitted[k] = 3

\* what the end-to-end scenario says of the reads: a read_logs that found all three
\* lines has them, in emission order, in its result and the lines it is still to
\* pop; once the third line was read nothing is left in the relay
ScenarioReads ==
    /\ \A t \in Callers :
         (Reading(t) /\ ThreeLinesLogged(th[t].key) /\ th[t].n + Len(th[t].out) = 3) =>
            th[t].out \o SubSeq(log_buf[th[t].key], 1, th[t].n)
               = <<Format(1), Format(2), Format(3)>>
    /\ \A k \in Keys :
         (ThreeLinesLogged(k) /\ last_read[k] = Format(3)) =>
            log_buf[k] = <<>> /\ log_q[k] = <<>> /\ Held(k) = {}

\* C14: end to end: after one start(k1) whose worker logs 3 lines, read_logs(k1, 10)
\* on the drained relay returns exactly these 3 lines in emission order, the next
\* read_logs(k1, 10) returns the empty list, and stop(k1) returns True with
\* status(k1).running false.
EndToEndLogsThenStop ==
    [][/\ ScenarioReads'
       /\ \A t \in Callers :
            (th[t].pc = "rl_lock" /\ Reading(t)' /\ ThreeLinesLogged(th[t].key)
               /\ last_read[th[t].key] = Format(3)) => th'[t].n = 0
       /\ \A t \in Callers :
            (Reading(t) /\ th'[t].pc = "idle") => th[t].n = 0
       /\ \A t \in Callers, k \in Keys :
            (StopReturnsTrue(t) /\ k = th[t].key) => ~status(k)'.running]_vars

\* C14 witness: read_logs(k1, 10) is about to return the three lines the worker of
\* the key's only start logged, in emission order; the buffer is empty
ReadReturnsThreeLines ==
    \E t \in Callers :
        /\ Reading(t) /\ th[t].n = 0 /\ ThreeLinesLogged(th[t].key)
        /\ th[t].out = <<Format(1), Format(2), Format(3)>>
        /\ log_buf[th[t].key] = <<>>

\* ---- watchdog, worker exit, pid records: properties -------------------

\* C15: the watchdog runs only with a positive threshold; a sweep that examines a
\* runner which is alive and whose heartbeat is older than the threshold calls
\* stop() on it, and when that stop() is over the runner is not alive; a runner that
\* is not alive or whose heartbeat is within the threshold is passed over, and
\* nothing of it is changed.
WatchdogStopsIdleRunners ==
    [][/\ th'[WD].pc # "idle" => stop_on_silence > 0
       /\ (th[WD].pc = "wd_iter" /\ th[WD].todo # <<>> /\ th'[WD] # th[WD]) =>
            IF Alive(proc[Head(th[WD].todo)]) /\ last_beat[Head(th[WD].todo)] = "stale"
            THEN th'[WD].pc = "sp_begin" /\ th'[WD].key = Head(th[WD].todo)
            ELSE /\ th'[WD].pc = "wd_iter" /\ th'[WD].todo = Tail(th[WD].todo)
                 /\ UNCHANGED shared
       /\ (th[WD].pc \in {"sp_begin", "sp_fin2"} /\ th'[WD].pc = "wd_kill") =>
            proc'[th[WD].key] = 0]_vars

\* C15 witness: the sweep's stop() of a stale runner is over: the runner has no
\* handle and no live worker, and no caller is in a call
WatchdogStoppedIdleRunner ==
    /\ th[WD].pc = "wd_kill" /\ ~th[WD].exc
    /\ last_beat[th[WD].key] = "stale" /\ log_thread_stop[th[WD].key]
    /\ proc[th[WD].key] = 0 /\ LiveWorkers(th[WD].key) = {} /\ nprocs > 0
    /\ \A t \in Callers : th[t].pc = "idle"

\* C16: a worker's own exit changes nothing in the supervisor: from then on
\* is_alive() and status().running of its runner are false; and a worker process
\* only ever comes into being in the spawn step of a caller's Registry.start (never
\* in a step of the watchdog or of stop, and never by itself).
WorkerExitIsPassive ==
    [][/\ \A k \in Keys :
            (proc[k] > 0 /\ proc'[k] = proc[k] /\ Alive(proc[k]) /\ ~Alive(proc[k])') =>
               ~is_alive(k)' /\ ~status(k)'.running
       /\ (th' = th /\ workers' # workers) =>
            /\ workers' \subseteq workers /\ nprocs' = nprocs
            /\ UNCHANGED <<runners, nCreated, proc, stop_evt, log_thread_stop, last_beat,
                           pidfile, lock, relay>>
       /\ (nprocs' # nprocs \/ \E w \in workers' : ~Alive(w.pid)) =>
            \E t \in Callers :
               /\ th[t].op = "start" /\ th[t].pc = "st_spawn" /\ th'[t].pc = "st_beat"
               /\ nprocs' = nprocs + 1
               /\ workers' = workers \cup {[pid |-> nprocs', key |-> th[t].key, term |-> FALSE]}]_vars

\* C16 witness: the worker of a runner has exited by itself; the runner keeps the
\* handle and the record, reports not alive, and with the watchdog on, the heartbeat
\* stale and every thread at rest no new worker exists
WorkerExitedNotRestarted ==
    \E k \in Keys :
        /\ proc[k] > 0 /\ ~is_alive(k) /\ LiveWorkers(k) = {}
        /\ ~stop_evt[k] /\ ~log_thread_stop[k] /\ read_pid(k) = proc[k]
        /\ stop_on_silence > 0 /\ last_beat[k] = "stale" /\ Quiet

\* no call on the runner of key k is in progress
AtRest(k) == \A t \in Threads : th[t].key = k => th[t].pc \in {"idle", "done"}

CleanupStep(t) == th[t].pc = "cd_iter" /\ th'[t] # th[t]

\* the record in file f names a live process
NamesLive(f) == pidfile[f] > 0 /\ pid_exists(pidfile[f])

KillAllStep(t) == th[t].pc = "ka_iter" /\ th'[t] # th[t]

\* C19 as stated: kill_all, with nothing in the Registry, terminates the live
\* process of every record it examines, removes a record only when it terminated
\* the record's process, and returns exactly the pids of the processes it killed.
\* Violated: for a record whose process is already gone _kill_pid answers True, so
\* the record is removed and its pid is returned as killed.
KillAllReturnsKilledPids ==
    [][\A t \in Callers : KillAllStep(t) =>
          /\ runners = <<>>
          /\ \A f \in PidFiles :
               /\ (th[t].todo # <<>> /\ Head(th[t].todo) = f /\ NamesLive(f)) =>
                     \A w \in workers' : w.pid # pidfile[f]
               /\ (pidfile[f] # 0 /\ pidfile'[f] = 0) =>
                     /\ NamesLive(f)
                     /\ \A w \in workers' : w.pid # pidfile[f]
          /\ \A w \in workers \ workers' : th'[t].out = Append(th[t].out, w.pid)
          /\ th'[t].out # th[t].out =>
               \E w \in workers \ workers' : th'[t].out = Append(th[t].out, w.pid)]_vars

\* thread t calls the pidguard function op for key k, and the call returns
StoreCall(t, op, k) ==
    th[t].pc = "idle" /\ th'[t].pc = "done" /\ th'[t].op = op /\ th'[t].key = k

\* the records of the keys other than k read as before
OthersUnchanged(k) == \A j \in Keys \ {k} : read_pid(j)' = read_pid(j)

\* C20: the pid files behave as a map from key to pid.  A write that returns makes
\* read_pid(k) the pid written, whatever the record was before; remove_pidfile never
\* raises, leaves no record for k, and changes nothing when there was no file;
\* read_pid returns the record as it stands (None when absent) and changes nothing;
\* and each of them leaves the records of the other keys as they were.
PidStoreIsAMap ==
    [][\A t \in Callers : \A k \in Keys :
          /\ (StoreCall(t, "write", k) /\ th'[t].res # "raised") =>
                read_pid(k)' = th'[t].p /\ OthersUnchanged(k)
          /\ StoreCall(t, "read", k) =>
                /\ th'[t].n = read_pid(k) /\ th'[t].res # "raised"
                /\ UNCHANGED pidfile
          /\ StoreCall(t, "remove", k) =>
                /\ th'[t].res # "raised"
                /\ read_pid(k)' = 0 /\ OthersUnchanged(k)
                /\ pidfile[pidfile_path(k)] = 0 => UNCHANGED pidfile]_vars

\* C20 witness: a write for one key has returned: its record now reads as the pid
\* written, and the other key still has its own, different record
WriteLeftOtherRecord ==
    \E k, j \in Keys :
        /\ th[PG].pc = "done" /\ th[PG].op = "write" /\ th[PG].key = k /\ th[PG].res # "raised"
        /\ read_pid(k) = th[PG].p
        /\ j # k /\ read_pid(j) # 0 /\ read_pid(j) # th[PG].p

\* ---- keys and files, stop_all, termination: properties ---------------

\* thread t has the file name of a key in hand
HasPath(t) == th[t].pc = "done" /\ th[t].op = "pidfile_path"

\* C21: the mapping from the keys the program makes to file names is deterministic
\* and collision-free: computed twice for one key it gives one name, and for two
\* different keys two different names.
KeyToFileInjective ==
    \A t, u \in Callers :
        (HasPath(t) /\ HasPath(u)) => (th[t].key = th[u].key <=> th[t].out = th[u].out)

\* C21 witness: the file names of two users whose tokens differ in their last digit
\* only have been computed, and differ
TwoTokensTwoFiles ==
    \E t, u \in Callers :
        /\ HasPath(t) /\ HasPath(u)
        /\ Len(th[t].key) = MaxTok + 2 /\ Len(th[u].key) = MaxTok + 2
        /\ th[t].key # th[u].key
        /\ SubSeq(th[t].key, 1, MaxTok + 1) = SubSeq(th[u].key, 1, MaxTok + 1)
        /\ th[t].out # th[u].out

\* C22 as stated: with calls in succession, Registry.stop_all returns (its map of
\* key -> bool) and then no registered runner is alive.  Violated: after a start
\* whose proc.start() raised (C10) the runner holds a never-started process, stop()
\* of it raises from p.join, and the exception ends stop_all without a result.
StopAllStopsEveryRunner ==
    \A t \in Callers :
        (th[t].pc = "done" /\ th[t].op = "stop_all") =>
            /\ th[t].res # "raised"
            /\ \A k \in Range(runners) : ~is_alive(k)

\* the live process with pid i
Worker(i) == CHOOSE w \in workers : w.pid = i

\* C23: BotRunner.stop takes its steps in the order cooperative signal, wait,
\* SIGTERM, wait, SIGKILL, wait.  With calls in succession: the first step sets the
\* stop event and sends no signal; after the first wait SIGTERM goes to the handle's
\* process if and only if it is still alive (else the cleanup follows at once, with
\* no signal at all); after the second wait a process is killed only if it is the
\* handle's process, still alive, and SIGTERM was sent to it before; and the cleanup
\* (kill_key) then finds no live process to signal.
StopEscalatesInOrder ==
    [][\A t \in Threads :
          /\ (th[t].pc = "sp_begin" /\ th'[t].pc \in {"sp_join", "sp_fin"}) =>
                stop_evt'[th[t].key] /\ workers' = workers
          /\ (th'[t].pc = "sp_join" /\ th'[t] # th[t]) => th[t].pc = "sp_begin"
          /\ (th'[t].pc = "sp_term" /\ th'[t] # th[t]) => th[t].pc = "sp_join"
          /\ (th[t].pc = "sp_join" /\ th'[t] # th[t]) =>
                IF Alive(th[t].p)
                THEN /\ th'[t].pc = "sp_term" /\ stop_evt[Worker(th[t].p).key]
                     /\ workers' = (workers \ {Worker(th[t].p)})
                                      \cup {[Worker(th[t].p) EXCEPT !.term = TRUE]}
                ELSE th'[t].pc = "sp_fin" /\ workers' = workers
          /\ (th[t].pc = "sp_term" /\ th'[t] # th[t]) =>
                /\ th'[t].pc = "sp_fin"
                /\ \A w \in workers \ workers' : w.pid = th[t].p /\ w.term
                /\ \A w \in workers' : w.pid # th[t].p
          /\ (th[t].pc \in {"sp_fin", "sp_fin2", "wd_kill"} /\ th'[t] # th[t]) =>
                workers' = workers]_vars

\* C23 witness: a stop is in its second wait: the worker outlived the cooperative
\* signal and the first wait, SIGTERM has been sent to it, and it is still alive, so
\* that SIGKILL comes next
StopSentTermBeforeKill ==
    \E t \in Callers :
        /\ th[t].pc = "sp_term" /\ th[t].op = "stop"
        /\ Alive(th[t].p) /\ Worker(th[t].p).term /\ proc[th[t].key] = th[t].p
        /\ stop_evt[th[t].key]

\* thread t is inside BotRunner.stop
InRunnerStop(t) == th[t].pc \in {"sp_begin", "sp_join", "sp_term", "sp_fin", "sp_fin2"}

\* thread t is inside Registry.stop or Registry.stop_all
Stopping(t) == th[t].op \in {"stop", "stop_all"} /\ th[t].pc \notin {"idle", "done"}

\* C24: every call of BotRunner.stop, and so every Registry.stop and stop_all,
\* comes to its end (returns or raises), whether the worker exits on the event, on
\* SIGTERM, on SIGKILL or never by itself.
StopAlwaysReturns ==
    \A t \in Threads :
        (InRunnerStop(t) \/ Stopping(t)) ~> ~(InRunnerStop(t) \/ Stopping(t))

\* C24 witness: stop_all is in the second wait of a stop whose worker took no notice
\* of the event nor, so far, of SIGTERM
StopAllWaitsForDeafWorker ==
    \E t \in Callers :
        /\ th[t].op = "stop_all" /\ th[t].pc = "sp_term"
        /\ Alive(th[t].p) /\ Worker(th[t].p).term

\* ---- watchdog and start, kill_all, keys apart, the log relay: properties ----

\* C25 as stated: the watchdog never stops the worker of a start that is still under
\* way: while a start has spawned its process and not yet returned, no stop of the
\* watchdog is aimed at that process.  Violated: start() spawns first and makes the
\* heartbeat current afterwards; a sweep in between sees the new process alive with
\* the heartbeat of the previous run and stops it.
WatchdogSparesFreshStart ==
    \A t \in Callers :
        th[t].pc \in {"st_beat", "st_pid"} =>
            ~(th[WD].pc \in {"sp_join", "sp_term"} /\ th[WD].p = th[t].mine)

\* no call is under way on the key of worker w
Settled(w) == \A t \in Threads : th[t].key # w.key

\* C26 as stated: once the start that spawned it has returned, a live worker has a
\* record with its pid, and no step changes or removes the record of a worker that
\* stays alive.  Violated: after a restart of the supervisor the Registry is empty;
\* start(k) for the key of a worker of the previous run does not stop that worker
\* and overwrites its record with the pid of the new one.
LiveWorkersStayReachable ==
    [][/\ \A w \in workers' : Settled(w)' => \E k \in Keys : read_pid(k)' = w.pid
       /\ \A k \in Keys :
            (read_pid(k) # 0 /\ Alive(read_pid(k)) /\ read_pid(k)' # read_pid(k)) =>
                \A w \in workers' : w.pid # read_pid(k)]_vars

\* thread t takes a step of a stop: of BotRunner.stop, of the watchdog's kill_key,
\* or a kill_key called by itself
StopStep(t) ==
    /\ th'[t] # th[t]
    /\ \/ th[t].pc \in {"sp_begin", "sp_join", "sp_term", "sp_fin", "sp_fin2", "wd_kill"}
       \/ th[t].pc = "idle" /\ th'[t].op = "kill_key"

\* the key that step is for
StoppedKey(t) == IF th[t].pc = "idle" THEN th'[t].key ELSE th[t].key

\* C27: a step of stopping key k signals or ends only processes that were spawned
\* for k, and leaves the record of every other key as it was.
StopTouchesOwnKeyOnly ==
    [][\A t \in Threads :
          StopStep(t) =>
             /\ \A w \in workers \ workers' : w.key = StoppedKey(t)
             /\ \A j \in Keys \ {StoppedKey(t)} : read_pid(j)' = read_pid(j)]_vars

\* C27 witness: the stop of one key has killed its worker and removed its record,
\* and the worker of the other key is alive with its record in place
StopLeftOtherTenantRunning ==
    \E t \in Callers, j \in Keys :
        /\ th[t].pc = "sp_fin2" /\ th[t].key # j /\ th[t].p > 0
        /\ read_pid(th[t].key) = 0 /\ LiveWorkers(th[t].key) = {}
        /\ is_alive(j) /\ read_pid(j) = proc[j]

\* the listener threads of key k that are waiting for an item of its log_q or have
\* taken one and not yet appended it
Draining(k) ==
    LET S == {x \in BagToSet(listeners) : x.key = k /\ x.pc \in {"get", "append"}}
    IN BagCardinality([x \in S |-> listeners[x]])

\* C28 as stated: at any time at most one listener thread per runner takes items
\* from the runner's log_q.  Violated: a restart sets the stop flag in stop() and
\* clears the same flag in _start_log_listener; the listener of the previous run,
\* which looks at the flag only between two q.get, goes on next to the new one.
AtMostOneDrainTask ==
    \A k \in Keys : Draining(k) <= 1

\* C29 as stated: a start that follows a stop begins with a fresh record: when it
\* spawns its worker the runner's log buffer and log_q are empty and the new stop
\* event is unset.  Violated: Registry.start reuses the BotRunner of the key, and
\* neither stop() nor start() empties _log_buf or log_q, so the lines of the previous
\* worker that were not read are still there.
NextStartBeginsFresh ==
    [][\A t \in Callers :
          (th[t].pc = "st_spawn" /\ th'[t].pc = "st_beat") =>
             /\ log_buf'[th[t].key] = <<>> /\ log_q'[th[t].key] = <<>>
             /\ ~stop_evt'[th[t].key]]_vars

\* the listener threads of key k
ListenersOf(k) ==
    LET S == {x \in BagToSet(listeners) : x.key = k}
    IN BagCardinality([x \in S |-> listeners[x]])

\* C30: once stop() has set the stop flag of a runner, its listener threads all
\* come to an end, unless a start clears the flag again; no receive holds a thread
\* for ever, with or without items in the queue.
DrainTaskExits ==
    \A k \in Keys : log_thread_stop[k] ~> (~log_thread_stop[k] \/ ListenersOf(k) = 0)

\* C30 witness: the stop flag is set, no call is under way, and a listener thread
\* is waiting in q.get on an empty queue
ListenerWaitsAfterStop ==
    \E x \in BagToSet(listeners) :
        /\ x.pc = "get" /\ log_q[x.key] = <<>> /\ log_thread_stop[x.key]
        /\ proc[x.key] = 0 /\ Quiet

\* ---- payloads, queue failure, observers, the worker: properties ---------

\* the number of listener threads
NListeners(b) == BagCardinality(b)

\* the listener threads of key k that hold payload p, not yet appended
Holding(b, k, p) ==
    LET x == [key |-> k, pc |-> "append", rec |-> p]
    IN IF BagIn(x, b) THEN b[x] ELSE 0

\* C31: a payload a listener thread takes from the queue is held by that thread,
\* and the thread's next step appends exactly one line for it, the formatted record
\* or, for a payload that cannot be formatted, its string; the thread goes on.
EveryPayloadAppended ==
    [][\A k \in Keys :
          /\ (log_q[k] # <<>> /\ log_q'[k] = Tail(log_q[k])) =>
                /\ Holding(listeners', k, Head(log_q[k]))
                      = Holding(listeners, k, Head(log_q[k])) + 1
                /\ log_buf' = log_buf
          /\ \A p \in (1..MaxLines) \cup RawPayloads :
                Holding(listeners', k, p) < Holding(listeners, k, p) =>
                   /\ log_buf'[k] = BufAppend(log_buf[k],
                                       IF p > 0 THEN <<"INFO", p>> ELSE <<"raw", p>>)
                   /\ NListeners(listeners') = NListeners(listeners)
          /\ log_buf'[k] # log_buf[k] /\ Len(log_buf'[k]) >= Len(log_buf[k]) =>
                \E p \in (1..MaxLines) \cup RawPayloads :
                   Holding(listeners', k, p) < Holding(listeners, k, p)]_vars

\* C31 witness: the line of a raw payload is in the buffer, and the listener thread
\* that appended it is still running
RawPayloadRelayed ==
    \E k \in Keys :
       /\ \E i \in 1..Len(log_buf[k]) : log_buf[k][i][1] = "raw"
       /\ ListenersOf(k) = 1 /\ nprocs = 1 /\ ~log_thread_stop[k]

\* the listener threads of key k whose queue has failed
FailedListeners(k) == {x \in BagToSet(listeners) : x.key = k /\ x.rec = QueueClosed}

\* C32: once the log queue of a runner has failed for good, its listener thread
\* comes to an end.
ChannelFailureEndsDrainTask ==
    \A k \in Keys : (FailedListeners(k) # {}) ~> (ListenersOf(k) = 0)

\* how often x occurs in the sequence q
CountIn(q, x) == Cardinality({i \in 1..Len(q) : q[i] = x})

\* the places record n of key k, or its line, is in: the queue, a listener thread
\* between q.get and buffer.append, the buffer, the lines of a read under way
Copies(k, n) ==
    CountIn(log_q[k], n) + Holding(listeners, k, n) + CountIn(log_buf[k], Format(n))
       + (IF th["c1"].key = k THEN CountIn(th["c1"].out, Format(n)) ELSE 0)
       + (IF th["c2"].key = k THEN CountIn(th["c2"].out, Format(n)) ELSE 0)

\* C33: a line is in one place at a time, on its way from the worker to one
\* observer: a line a read has taken is in no other read and no longer in the
\* buffer, whatever the other observers and the listener thread do meanwhile.
LineReadAtMostOnce ==
    \A k \in Keys : \A n \in 1..MaxLines :
       /\ Copies(k, n) <= 1
       /\ Copies(k, n) = 1 => n <= emitted[k]

\* C33 witness: one observer has taken a line, the other waits for the runner's
\* lock, and the listener thread is about to append the next line
TwoObserversAndListener ==
    /\ th["c1"].pc = "rl_pop" /\ Len(th["c1"].out) >= 1
    /\ th["c2"].pc = "rl_lock"
    /\ Held(LogKey) # {} /\ log_buf[LogKey] # <<>>

\* C34: a worker of the previous supervisor, still running after the supervisor
\* was replaced, finds out and exits.
OrphanedWorkerExits ==
    \A i \in 1..PrevProcs : Alive(i) ~> ~Alive(i)

Exited == th[Child].pc = "exited"

Crashed == Exited /\ th[Child].exc /\ th[Child].res \in Range(Phases) \ {"logging"}

\* C36: the line a crashing worker logs before it exits comes to be in the buffer
\* of its runner, as long as the listener thread runs.
CrashLineDelivered ==
    Crashed ~> (/\ Crashed
                /\ \/ Format(th[Child].mine) \in Range(log_buf[th[Child].key])
                   \/ ListenersOf(th[Child].key) = 0)

\* ---- advisory pid records, the watchdog switched off, heartbeats, locks ----

\* thread t ends BotRunner.start in this step with the pid record as it was: the
\* write of the record failed
WriteFailed(t) ==
    th[t].op = "start" /\ th[t].pc = "st_pid" /\ th'[t].pc = "done" /\ pidfile' = pidfile

\* C37: a start whose write of the pid record fails returns success all the same,
\* and leaves the runner as a start whose write succeeded leaves it: the handle, the
\* worker, the heartbeat, the stop signal and the listener are untouched by the
\* failure, and the handle is that of the worker this start spawned.
PidRecordIsAdvisory ==
    [][\A t \in Callers :
          WriteFailed(t) =>
             /\ th'[t].res = "true"
             /\ proc'[th[t].key] = th[t].mine
             /\ UNCHANGED <<runners, proc, workers, stop_evt, log_thread_stop, last_beat,
                            listeners, log_q, log_buf>>]_vars

\* C37 witness: start has returned success, the worker it spawned runs, and there
\* is no record of it
StartedWithoutRecord ==
    \E t \in Callers :
       /\ th[t].pc = "done" /\ th[t].op = "start" /\ th[t].res = "true"
       /\ proc[th[t].key] > 0 /\ is_alive(th[t].key)
       /\ pidfile[pidfile_path(th[t].key)] = 0

\* worker w is signalled or stopped in this step: the stop event of its runner
\* is set, it is sent SIGTERM, or it is killed by a thread of the supervisor
Acted(w) ==
    \/ proc[w.key] = w.pid /\ stop_evt'[w.key] /\ ~stop_evt[w.key]
    \/ ~w.term /\ [w EXCEPT !.term = TRUE] \in workers'
    \/ ~Alive(w.pid)' /\ th' # th

StatusPoll(t, k) ==
    th[t].pc = "idle" /\ th'[t].pc = "done" /\ th'[t].op = "get" /\ th'[t].key = k

\* C39: a status poll of a key refreshes the heartbeat of its runner, so that the
\* watchdog finds a polled runner within the threshold.
StatusPollRefreshesHeartbeat ==
    [][\A t \in Callers : \A k \in Keys :
          (StatusPoll(t, k) /\ Registered(k)) => last_beat'[k] = "fresh"]_vars

\* thread t is inside a call or a sweep
InCall(t) == th[t].pc \notin {"idle", "done"}

\* thread t waits for the Registry lock: the lookup of a turn of stop_all
WaitsForRegistryLock(t) == th[t].pc = "sa_iter" /\ th[t].todo # <<>>

\* C40: no thread that holds a runner's lock holds or waits for the Registry lock,
\* and no thread that holds the Registry lock waits for a runner's lock; every
\* call and every sweep comes to its end, and each lock is free again after it was
\* taken, so that a thread waiting for it gets it.
LocksNeverDeadlock ==
    /\ [](\A t \in Threads : \A k \in Keys :
             /\ rlock[k] = t => (lock # t /\ ~WaitsForRegistryLock(t))
             /\ lock = t => th[t].pc # "rl_lock")
    /\ \A t \in Threads : InCall(t) ~> ~InCall(t)
    /\ (lock # "free") ~> (lock = "free")
    /\ (rlock[LogKey] # "free") ~> (rlock[LogKey] = "free")

\* C40 witness: the watchdog holds the Registry lock inside the stop() of an idle
\* runner, a caller's stop_all waits for that lock, and the other caller waits
\* for the lock of the runner
CallersWaitWhileWatchdogStops ==
    /\ lock = WD /\ InRunnerStop(WD)
    /\ \E t \in Callers : WaitsForRegistryLock(t)
    /\ \E t \in Callers : th[t].pc = "rl_lock"

====
